---- MODULE Spec2Model ----
(***************************************************************************)
(* A model of the nexus ontology core: the entity registry (entities,      *)
(* their identifiers and aliases), the edge manager and the attribute      *)
(* manager, each writing SCD2 rows (valid_from / valid_to, valid_to NULL = *)
(* open) into a transactional relational store; the service in front of    *)
(* them with its entity cache; and the resolver with its quarantine.       *)
(*                                                                         *)
(* One action is one public write: the component method together with the  *)
(* commit (or, when the method raises, the rollback) of the unit of work   *)
(* it runs in.  Queries are operators over the tables.                     *)
(***************************************************************************)
EXTENDS Integers, Sequences, FiniteSets, TLC

VARIABLES now, nops, last, pre, entities, identifiers, edges, attributes,
          aliases, quarantine, cache, txns

\* The transactions in flight (none outside the concurrent-writer models).
NoTxns == <<>>

vars == <<now, nops, last, pre, entities, identifiers, edges, attributes, aliases, quarantine, cache, txns>>

-----------------------------------------------------------------------------
(* Bounds of the model.                                                    *)

\* Instants are 0..MaxTime; the wall clock `now` only moves forward.
MaxTime == 1
\* Public calls made in one behaviour of the edge and attribute managers.
MaxOps == 3
\* Public calls made in one behaviour of the registry.
MaxRegistryOps == 4

Time == 0..MaxTime

\* SQL NULL in a timestamp column, and an absent (None) timestamp argument.
NULL == 0 - 1

\* None for the optional non-timestamp arguments and NULL in their columns.
None == "None"

-----------------------------------------------------------------------------
(* Text.  A string is a sequence of characters; str.strip() removes the    *)
(* leading and trailing whitespace.                                        *)

RECURSIVE LStrip(_)
LStrip(s) == IF s # <<>> /\ Head(s) = " " THEN LStrip(Tail(s)) ELSE s

RECURSIVE RStrip(_)
RStrip(s) ==
    IF s # <<>> /\ s[Len(s)] = " " THEN RStrip(SubSeq(s, 1, Len(s) - 1)) ELSE s

StripNothing(s) == s

Strip(s) == RStrip(LStrip(s))

-----------------------------------------------------------------------------
(* Synthetic ids.  A minted id is "<PREFIX>_<ULID>"; the model names the   *)
(* ids the minter hands out and one malformed string.                      *)

PREFIX_MAP ==
    [COMPANY |-> "CO", SECURITY |-> "SE", EXCHANGE |-> "EX", INDEX |-> "IX",
     PERSON |-> "PE", ORG |-> "OR", SECTOR |-> "SC", THEME |-> "TH",
     COMMODITY |-> "CM", FX |-> "FX"]

EntityType == DOMAIN PREFIX_MAP

\* The 26-character ULIDs the model names.
Ulids == {"01A", "01B", "01C"}

\* The well-formed ids of the model, as <<prefix, ulid>>.
SynA == <<"CO", "01A">>
SynB == <<"CO", "01B">>
SynIds == {SynA, SynB}

\* A well-formed id that no entity of the registry has.
SynC == <<"CO", "01C">>

\* A string that does not parse as a syn_id.
BadSynId == <<"??", "">>

validate_syn_id(s) ==
    /\ s[1] \in {PREFIX_MAP[t] : t \in EntityType}
    /\ s[2] \in Ulids

\* A well-formed id of another type, for the registries that hold entities
\* of two types.
SynS == <<"SE", "01A">>

MintableIds == SynIds \cup {SynS}

\* The ids generate_syn_id has not handed out yet: of any prefix, and for the
\* type.
generate_syn_id_any_prefix(t) ==
    {s \in MintableIds : \A e \in entities : e.syn_id # s}

generate_syn_id(t) ==
    {s \in MintableIds : s[1] = PREFIX_MAP[t] /\ \A e \in entities : e.syn_id # s}

-----------------------------------------------------------------------------
(* The record of the last public call: what was called, with what, and     *)
(* what it returned or raised; and `pre`, the rows its table held when it   *)
(* was called.                                                             *)

NoCall == [op |-> "none", args |-> <<>>, result |-> "none"]

\* A behaviour makes at most MaxOps (of the registry: MaxRegistryOps) calls.
CanCall == nops < MaxOps
CanCallRegistry == nops < MaxRegistryOps

Called(op, args, result, table) ==
    /\ pre' = table
    /\ nops' = nops + 1
    /\ last' = [op |-> op, args |-> args, result |-> result]

\* The wall clock advances between calls.
Tick ==
    /\ now < MaxTime
    /\ now' = now + 1
    /\ UNCHANGED <<txns, nops, last, pre, entities, identifiers, edges, attributes, aliases, quarantine, cache>>

-----------------------------------------------------------------------------
(* The store's constraints on the identifiers table.                       *)

\* The foreign key identifiers.syn_id -> entity_registry.syn_id.
EntityExists(syn_id) == \E e \in entities : e.syn_id = syn_id

\* The arbiter of ON CONFLICT (syn_id, scheme, valid_from).
IdentifierKeyTaken(rows, row) ==
    \E r \in rows :
        /\ r.syn_id = row.syn_id
        /\ r.scheme = row.scheme
        /\ r.valid_from = row.valid_from

\* The unique partial index on (scheme, value) WHERE valid_to IS NULL.
IdentifierOpenTakenOff(rows, row) == FALSE

IdentifierOpenTaken(rows, row) ==
    /\ row.valid_to = NULL
    /\ \E r \in rows :
        /\ r.scheme = row.scheme
        /\ r.value = row.value
        /\ r.valid_to = NULL

-----------------------------------------------------------------------------
(* Registry.                                                               *)

EntityNames == {<<"A">>, <<" ", "A">>, <<" ">>}
Statuses == {"ACTIVE", "INACTIVE", "MERGED"}
StatusInputs == {"ACTIVE", "MERGED", "INVALID"}

create_entity(entity_type, canonical_name, status) ==
    /\ UNCHANGED <<txns, now, aliases, quarantine, cache, identifiers, edges, attributes>>
    /\ IF canonical_name = <<>> \/ Strip(canonical_name) = <<>>
       THEN /\ Called("create_entity", <<entity_type, canonical_name, status>>,
                      "ValueError:name", entities)
            /\ UNCHANGED entities
       ELSE IF status \notin Statuses
       THEN /\ Called("create_entity", <<entity_type, canonical_name, status>>,
                      "ValueError:status", entities)
            /\ UNCHANGED entities
       ELSE IF entity_type \notin EntityType
       THEN /\ Called("create_entity", <<entity_type, canonical_name, status>>,
                      "ValueError:entity_type", entities)
            /\ UNCHANGED entities
       ELSE /\ generate_syn_id(entity_type) # {}
            /\ \E syn_id \in generate_syn_id(entity_type) :
                /\ entities' = entities \cup
                       {[syn_id |-> syn_id, type |-> entity_type,
                         canonical_name |-> Strip(canonical_name),
                         status |-> status]}
                /\ Called("create_entity",
                          <<entity_type, canonical_name, status>>, syn_id,
                          entities)

Schemes == {"TICKER"}
IdentifierValues == {<<"X">>, <<" ", "X">>, <<"Y">>, <<" ">>}

\* The open rows the collision check of add_identifier selects from.
OpenIdentifiers(scheme, value) ==
    {r \in identifiers :
        r.scheme = scheme /\ r.value = value /\ r.valid_to = NULL}

\* INSERT ... ON CONFLICT (syn_id, scheme, valid_from) DO NOTHING.
\* The result is "ok" (inserted, or skipped on the arbiter) or the store's error.
InsertIdentifierResult(rows, row) ==
    IF IdentifierKeyTaken(rows, row) THEN "ok"
    ELSE IF ~EntityExists(row.syn_id) THEN "psycopg.Error:fk"
    ELSE IF IdentifierOpenTaken(rows, row) THEN "psycopg.Error:unique"
    ELSE "ok"

InsertIdentifier(rows, row) ==
    IF IdentifierKeyTaken(rows, row) \/ InsertIdentifierResult(rows, row) # "ok"
    THEN rows
    ELSE rows \cup {row}

\* The collision test on the row the check fetched: it is owned by another id.
IdentifierCollisionNever(existing, syn_id) == FALSE

IdentifierCollision(existing, syn_id) == existing.syn_id # syn_id

add_identifier(syn_id, scheme, value, valid_from) ==
    LET args == [syn_id |-> syn_id, scheme |-> scheme, value |-> value,
                 valid_from |-> valid_from]
        vf == IF valid_from = NULL THEN now ELSE valid_from
        row == [syn_id |-> syn_id, scheme |-> scheme, value |-> Strip(value),
                valid_from |-> vf, valid_to |-> NULL]
        open == OpenIdentifiers(scheme, Strip(value))
    IN
    /\ UNCHANGED <<txns, now, aliases, quarantine, cache, entities, edges, attributes>>
    /\ IF ~validate_syn_id(syn_id)
       THEN /\ Called("add_identifier", args, "ValueError:syn_id", identifiers)
            /\ UNCHANGED identifiers
       ELSE IF value = <<>> \/ Strip(value) = <<>>
       THEN /\ Called("add_identifier", args, "ValueError:value", identifiers)
            /\ UNCHANGED identifiers
       ELSE \/ \E existing \in open :
                /\ IdentifierCollision(existing, syn_id)
                /\ Called("add_identifier", args, "ValueError:collision",
                         identifiers)
                /\ UNCHANGED identifiers
            \/ /\ \/ open = {}
                  \/ \E existing \in open : ~IdentifierCollision(existing, syn_id)
               /\ identifiers' = InsertIdentifier(identifiers, row)
               /\ Called("add_identifier", args,
                         InsertIdentifierResult(identifiers, row), identifiers)

\* The rows resolve_identifier's query matches; LIMIT 1 returns any one of
\* them, and None when there is none.
resolve_identifier_after(scheme, value, asof) ==
    {[syn_id |-> r.syn_id, valid_from |-> r.valid_from, valid_to |-> r.valid_to,
      canonical_name |-> e.canonical_name, type |-> e.type, status |-> e.status] :
        <<r, e>> \in {p \in identifiers \X entities :
            /\ p[1].syn_id = p[2].syn_id
            /\ p[1].scheme = scheme
            /\ p[1].value = Strip(value)
            /\ p[1].valid_from < asof
            /\ (p[1].valid_to = NULL \/ p[1].valid_to > asof)}}

resolve_identifier(scheme, value, asof) ==
    {[syn_id |-> r.syn_id, valid_from |-> r.valid_from, valid_to |-> r.valid_to,
      canonical_name |-> e.canonical_name, type |-> e.type, status |-> e.status] :
        <<r, e>> \in {p \in identifiers \X entities :
            /\ p[1].syn_id = p[2].syn_id
            /\ p[1].scheme = scheme
            /\ p[1].value = Strip(value)
            /\ p[1].valid_from <= asof
            /\ (p[1].valid_to = NULL \/ p[1].valid_to > asof)}}

-----------------------------------------------------------------------------
(* The registry alone: entities and identifiers.                           *)

Init ==
    /\ now = 0
    /\ nops = 0
    /\ last = NoCall
    /\ pre = {}
    /\ entities = {}
    /\ identifiers = {}
    /\ edges = {}
    /\ attributes = {}
    /\ aliases = {}
    /\ quarantine = {}
    /\ cache = {}
    /\ txns = NoTxns

CreateEntity ==
    /\ CanCallRegistry
    /\ \E t \in {"COMPANY"}, n \in EntityNames, s \in StatusInputs :
        create_entity(t, n, s)

AddIdentifier ==
    /\ CanCallRegistry
    /\ \E syn_id \in SynIds \cup {BadSynId}, scheme \in Schemes,
       value \in IdentifierValues, valid_from \in Time \cup {NULL} :
        add_identifier(syn_id, scheme, value, valid_from)

NextRegistry == Tick \/ CreateEntity \/ AddIdentifier

SpecRegistry == Init /\ [][NextRegistry]_vars

-----------------------------------------------------------------------------
(* Edge manager.  Confidence is counted in thousandths: 1000 is 1.0.       *)

\* The tolerance 0.01 of the change detection, in thousandths.
Tolerance == 10

Abs(x) == IF x < 0 THEN 0 - x ELSE x

RelTypes == {"LISTED_ON"}
\* The empty JSON object {}.
EmptyObj == "{}"

\* The (source, confidence, attrs, evidence) arguments tried: one base tuple
\* and every tuple that differs from it in one field, so that stored and
\* supplied values differ in none, one or two fields.
BaseEdgeValues ==
    [source |-> "manual", confidence |-> 800, attrs |-> None, evidence |-> None]

EdgeValueInputs ==
    {BaseEdgeValues}
    \cup {[BaseEdgeValues EXCEPT !.source = "openfigi"]}
    \cup {[BaseEdgeValues EXCEPT !.confidence = c] : c \in {805, 810, 811}}
    \cup {[BaseEdgeValues EXCEPT !.attrs = a] : a \in {EmptyObj, "{k:1}"}}
    \cup {[BaseEdgeValues EXCEPT !.evidence = "filing"]}

\* The (src, dst) pairs tried: a valid pair, and a self-loop and malformed ids.
EdgeEndpointInputs == {<<SynA, SynB>>}
BadEdgeEndpointInputs == {<<SynA, SynA>>, <<BadSynId, SynB>>, <<SynA, BadSynId>>}

\* The foreign keys edges.src_syn_id, edges.dst_syn_id -> entity_registry.
EdgeEndpointsExist(row) == EntityExists(row.src) /\ EntityExists(row.dst)

\* The key (src, dst, rel_type, valid_from) of an edge version.
EdgeKeyTaken(rows, row) ==
    \E r \in rows :
        /\ r.src = row.src /\ r.dst = row.dst /\ r.rel_type = row.rel_type
        /\ r.valid_from = row.valid_from

OpenEdges(rows, src, dst, rel_type) ==
    {r \in rows :
        r.src = src /\ r.dst = dst /\ r.rel_type = rel_type /\ r.valid_to = NULL}

\* What the attrs column holds for an attrs argument: Jsonb(attrs) if attrs
\* else None, so None and {} (both falsy) are stored as NULL.
StoredAttrs(attrs) == IF attrs = None \/ attrs = EmptyObj THEN None ELSE attrs

\* The "significant change" test of add_edge against the open row it read.
EdgeChangedAtTolerance(existing, attrs, confidence, source, evidence) ==
    \/ existing.attrs # attrs
    \/ Abs(existing.confidence - confidence) >= Tolerance
    \/ existing.source # source
    \/ existing.evidence # evidence

\* A test that looks at attrs and confidence only.
EdgeChangedInAttrsOrConfidence(existing, attrs, confidence, source, evidence) ==
    \/ existing.attrs # attrs
    \/ Abs(existing.confidence - confidence) > Tolerance

EdgeChanged(existing, attrs, confidence, source, evidence) ==
    LET attrs_changed == existing.attrs # attrs
        confidence_changed == Abs(existing.confidence - confidence) > Tolerance
        source_changed == existing.source # source
        evidence_changed == existing.evidence # evidence
    IN attrs_changed \/ confidence_changed \/ source_changed \/ evidence_changed

\* UPDATE edges SET valid_to = .. WHERE <key> AND valid_to IS NULL.  (The
\* statement also stamps updated_at, a column no operation reads; the rows of
\* the model carry the columns the operations and queries read.)
CloseEdgesNone(rows, src, dst, rel_type, valid_to) == rows

CloseEdgesAtNow(rows, src, dst, rel_type, valid_to) ==
    {IF r \in OpenEdges(rows, src, dst, rel_type)
     THEN [r EXCEPT !.valid_to = now]
     ELSE r : r \in rows}

CloseEdgesOfKey(rows, src, dst, rel_type, valid_to) ==
    {IF r.src = src /\ r.dst = dst /\ r.rel_type = rel_type
     THEN [r EXCEPT !.valid_to = valid_to]
     ELSE r : r \in rows}

CloseEdges(rows, src, dst, rel_type, valid_to) ==
    {IF r \in OpenEdges(rows, src, dst, rel_type)
     THEN [r EXCEPT !.valid_to = valid_to]
     ELSE r : r \in rows}

\* INSERT INTO edges: "ok", or the store's error.
InsertEdgeResult(rows, row) ==
    IF ~EdgeEndpointsExist(row) THEN "psycopg.Error:fk"
    ELSE IF EdgeKeyTaken(rows, row) THEN "psycopg.Error:key"
    ELSE "ok"

EdgeRow(src, dst, rel_type, attrs, source, evidence, confidence, valid_from, observed_at) ==
    [src |-> src, dst |-> dst, rel_type |-> rel_type,
     attrs |-> StoredAttrs(attrs), source |-> source, evidence |-> evidence,
     confidence |-> confidence, valid_from |-> valid_from, valid_to |-> NULL,
     observed_at |-> observed_at]

\* The unit of work of one add_edge: the rows written are committed when the
\* method returns and rolled back when a statement raises.
add_edge_write_through(args, rows, result) ==
    /\ edges' = rows
    /\ Called("add_edge", args, result, edges)

add_edge_write(args, rows, result) ==
    /\ edges' = IF result \in {"(True, False)", "(False, True)"} THEN rows ELSE edges
    /\ Called("add_edge", args, result, edges)

add_edge(src, dst, rel_type, source, confidence, attrs, evidence, observed_at, valid_from) ==
    LET args == [src |-> src, dst |-> dst, rel_type |-> rel_type,
                 source |-> source, confidence |-> confidence, attrs |-> attrs,
                 evidence |-> evidence, observed_at |-> observed_at,
                 valid_from |-> valid_from]
        obs == IF observed_at = NULL THEN now ELSE observed_at
        vf == IF valid_from = NULL THEN obs ELSE valid_from
        row == EdgeRow(src, dst, rel_type, attrs, source, evidence, confidence,
                       vf, obs)
        open == OpenEdges(edges, src, dst, rel_type)
        closed == CloseEdges(edges, src, dst, rel_type, vf)
    IN
    /\ UNCHANGED <<txns, now, aliases, quarantine, cache, entities, identifiers, attributes>>
    /\ IF ~validate_syn_id(src)
       THEN add_edge_write(args, edges, "ValueError:src_syn_id")
       ELSE IF ~validate_syn_id(dst)
       THEN add_edge_write(args, edges, "ValueError:dst_syn_id")
       ELSE IF src = dst
       THEN add_edge_write(args, edges, "ValueError:same")
       ELSE IF ~(0 <= confidence /\ confidence <= 1000)
       THEN add_edge_write(args, edges, "ValueError:confidence")
       ELSE IF open # {}
       THEN \E existing \in open :
                IF EdgeChanged(existing, attrs, confidence, source, evidence)
                THEN IF InsertEdgeResult(closed, row) = "ok"
                     THEN add_edge_write(args, closed \cup {row}, "(False, True)")
                     ELSE add_edge_write(args, closed, InsertEdgeResult(closed, row))
                ELSE add_edge_write(args, edges, "(False, False)")
       ELSE IF InsertEdgeResult(edges, row) = "ok"
            THEN add_edge_write(args, edges \cup {row}, "(True, False)")
            ELSE add_edge_write(args, edges, InsertEdgeResult(edges, row))

\* The return value of delete_edge: the UPDATE .. RETURNING gave a row.
EdgeDeletedAlways(returning) == TRUE

EdgeDeleted(returning) == returning # {}

delete_edge(src, dst, rel_type, valid_to) ==
    LET args == [src |-> src, dst |-> dst, rel_type |-> rel_type,
                 valid_to |-> valid_to]
        vt == IF valid_to = NULL THEN now ELSE valid_to
        returning == OpenEdges(edges, src, dst, rel_type)
    IN
    /\ UNCHANGED <<txns, now, aliases, quarantine, cache, entities, identifiers, attributes>>
    /\ IF ~validate_syn_id(src) \/ ~validate_syn_id(dst)
       THEN /\ Called("delete_edge", args, "False", edges)
            /\ UNCHANGED edges
       ELSE /\ edges' = CloseEdges(edges, src, dst, rel_type, vt)
            /\ Called("delete_edge", args,
                      IF EdgeDeleted(returning) THEN "True" ELSE "False", edges)

\* The rows get_edges selects (its page holds them all: limit >= 1 rows are
\* returned from offset 0, and the model's tables are shorter than the limit).
get_edges(syn_id, direction, rel_type, active_only, asof) ==
    IF ~validate_syn_id(syn_id) THEN {}
    ELSE {e \in edges :
            /\ CASE direction = "out" -> e.src = syn_id
                 [] direction = "in" -> e.dst = syn_id
                 [] OTHER -> e.src = syn_id \/ e.dst = syn_id
            /\ IF active_only
               THEN e.valid_to = NULL
               ELSE /\ e.valid_from <= asof
                    /\ (e.valid_to = NULL \/ e.valid_to > asof)
            /\ (rel_type # None => e.rel_type = rel_type)}

-----------------------------------------------------------------------------
(* The state of a registry that holds the model's entities and no edge or   *)
(* attribute yet.                                                          *)

SeededEntities ==
    {[syn_id |-> s, type |-> "COMPANY", canonical_name |-> <<"A">>,
      status |-> "ACTIVE"] : s \in SynIds}

InitScd2 ==
    /\ now = 0
    /\ nops = 0
    /\ last = NoCall
    /\ pre = {}
    /\ entities = SeededEntities
    /\ identifiers = {}
    /\ edges = {}
    /\ attributes = {}
    /\ aliases = {}
    /\ quarantine = {}
    /\ cache = {}
    /\ txns = NoTxns

\* The explicit instants tried as arguments: the earliest and the latest, so
\* that an explicit instant lies before, at or after the clock and the
\* valid_from of the open row.
StampTimes == {0, MaxTime}

\* The (observed_at, valid_from) arguments tried: observed_at absent or
\* given and valid_from absent, which is how every caller calls (valid_from
\* then takes the value of observed_at).
StampInputs == {<<t, NULL>> : t \in StampTimes \cup {NULL}}

AddEdge ==
    /\ CanCall
    /\ \/ \E e \in EdgeEndpointInputs, rel_type \in RelTypes,
             v \in EdgeValueInputs, st \in StampInputs :
              add_edge(e[1], e[2], rel_type, v.source, v.confidence, v.attrs,
                       v.evidence, st[1], st[2])
       \/ \E e \in EdgeEndpointInputs, rel_type \in RelTypes,
             confidence \in {0 - 1, 1001} :
              add_edge(e[1], e[2], rel_type, BaseEdgeValues.source, confidence,
                       BaseEdgeValues.attrs, BaseEdgeValues.evidence, NULL, NULL)
       \/ \E e \in BadEdgeEndpointInputs, rel_type \in RelTypes :
              add_edge(e[1], e[2], rel_type, BaseEdgeValues.source,
                       BaseEdgeValues.confidence, BaseEdgeValues.attrs,
                       BaseEdgeValues.evidence, NULL, NULL)

DeleteEdge ==
    /\ CanCall
    /\ \E e \in EdgeEndpointInputs \cup {<<BadSynId, SynB>>},
          rel_type \in RelTypes, valid_to \in StampTimes \cup {NULL} :
           delete_edge(e[1], e[2], rel_type, valid_to)


-----------------------------------------------------------------------------
(* Attribute manager.  A value is <<shape, content>>: a str, a number or a  *)
(* dict.                                                                   *)

Datatypes == {"STRING", "NUMBER", "JSON"}

\* isinstance(value, ..) for the datatype; isinstance(value, (int, float))
\* holds of a bool.
ValueMatches(datatype, value) ==
    CASE datatype = "STRING" -> value[1] = "str"
      [] datatype = "NUMBER" -> value[1] \in {"num", "bool"}
      [] datatype = "JSON" -> value[1] = "dict"
      [] OTHER -> FALSE

\* float(value): a bool, being an int, converts to 1.0 or 0.0.
Float(value) ==
    IF value[1] = "bool" THEN <<"num", IF value[2] THEN 1 ELSE 0>> ELSE value

\* The three value slots of a row: the one of the datatype holds the value.
ValueSlots(datatype, value) ==
    [value_string |-> IF datatype = "STRING" THEN value ELSE <<None>>,
     value_number |-> IF datatype = "NUMBER" THEN Float(value) ELSE <<None>>,
     value_json |-> IF datatype = "JSON" THEN value ELSE <<None>>]

\* The key (syn_id, key, valid_from) of an attribute version.
AttributeKeyTaken(rows, row) ==
    \E r \in rows :
        r.syn_id = row.syn_id /\ r.key = row.key /\ r.valid_from = row.valid_from

OpenAttributes(rows, syn_id, key) ==
    {r \in rows : r.syn_id = syn_id /\ r.key = key /\ r.valid_to = NULL}

\* The "significant change" test of upsert_attribute against the open row.
AttributeChangedNoSource(existing, datatype, value, source, confidence) ==
    \/ existing.value_string # ValueSlots(datatype, value).value_string
    \/ existing.value_number # ValueSlots(datatype, value).value_number
    \/ existing.value_json # ValueSlots(datatype, value).value_json
    \/ existing.datatype # datatype
    \/ Abs(existing.confidence - confidence) > Tolerance

AttributeChanged(existing, datatype, value, source, confidence) ==
    LET slots == ValueSlots(datatype, value)
        value_changed ==
            \/ datatype = "STRING" /\ existing.value_string # slots.value_string
            \/ datatype = "NUMBER" /\ existing.value_number # slots.value_number
            \/ datatype = "JSON" /\ existing.value_json # slots.value_json
        datatype_changed == existing.datatype # datatype
        source_changed == existing.source # source
        confidence_changed == Abs(existing.confidence - confidence) > Tolerance
    IN value_changed \/ datatype_changed \/ source_changed \/ confidence_changed

\* UPDATE attributes SET valid_to = .. WHERE syn_id, key AND valid_to IS NULL.
CloseAttributesNone(rows, syn_id, key, valid_to) == rows

CloseAttributes(rows, syn_id, key, valid_to) ==
    {IF r \in OpenAttributes(rows, syn_id, key)
     THEN [r EXCEPT !.valid_to = valid_to]
     ELSE r : r \in rows}

\* INSERT INTO attributes: "ok", or the store's error.
InsertAttributeResult(rows, row) ==
    IF ~EntityExists(row.syn_id) THEN "psycopg.Error:fk"
    ELSE IF AttributeKeyTaken(rows, row) THEN "psycopg.Error:key"
    ELSE "ok"

AttributeRow(syn_id, key, datatype, value, source, confidence, valid_from, observed_at) ==
    [syn_id |-> syn_id, key |-> key, datatype |-> datatype,
     value_string |-> ValueSlots(datatype, value).value_string,
     value_number |-> ValueSlots(datatype, value).value_number,
     value_json |-> ValueSlots(datatype, value).value_json,
     source |-> source, confidence |-> confidence,
     valid_from |-> valid_from, valid_to |-> NULL, observed_at |-> observed_at]

\* The unit of work of one upsert_attribute: committed when the method
\* returns, rolled back when it raises.
upsert_attribute_write(args, rows, result) ==
    /\ attributes' =
        IF result \in {"(True, False)", "(False, True)"} THEN rows ELSE attributes
    /\ Called("upsert_attribute", args, result, attributes)

upsert_attribute(syn_id, key, datatype, value, source, confidence, observed_at, valid_from) ==
    LET args == [syn_id |-> syn_id, key |-> key, datatype |-> datatype,
                 value |-> value, source |-> source, confidence |-> confidence,
                 observed_at |-> observed_at, valid_from |-> valid_from]
        obs == IF observed_at = NULL THEN now ELSE observed_at
        vf == IF valid_from = NULL THEN obs ELSE valid_from
        row == AttributeRow(syn_id, key, datatype, value, source, confidence,
                            vf, obs)
        open == OpenAttributes(attributes, syn_id, key)
        closed == CloseAttributes(attributes, syn_id, key, vf)
    IN
    /\ UNCHANGED <<txns, now, aliases, quarantine, cache, entities, identifiers, edges>>
    /\ IF ~validate_syn_id(syn_id)
       THEN upsert_attribute_write(args, attributes, "ValueError:syn_id")
       ELSE IF key = <<>> \/ Strip(key) = <<>>
       THEN upsert_attribute_write(args, attributes, "ValueError:key")
       ELSE IF datatype \notin Datatypes
       THEN upsert_attribute_write(args, attributes, "ValueError:datatype")
       ELSE IF ~(0 <= confidence /\ confidence <= 1000)
       THEN upsert_attribute_write(args, attributes, "ValueError:confidence")
       ELSE IF ~ValueMatches(datatype, value)
       THEN upsert_attribute_write(args, attributes, "ValueError:value")
       ELSE IF open # {}
       THEN \E existing \in open :
                IF AttributeChanged(existing, datatype, value, source, confidence)
                THEN IF InsertAttributeResult(closed, row) = "ok"
                     THEN upsert_attribute_write(args, closed \cup {row},
                                                 "(False, True)")
                     ELSE upsert_attribute_write(args, closed,
                                                 InsertAttributeResult(closed, row))
                ELSE upsert_attribute_write(args, attributes, "(False, False)")
       ELSE IF InsertAttributeResult(attributes, row) = "ok"
            THEN upsert_attribute_write(args, attributes \cup {row},
                                        "(True, False)")
            ELSE upsert_attribute_write(args, attributes,
                                        InsertAttributeResult(attributes, row))

\* The (datatype, value, source, confidence) arguments tried: one base tuple
\* and every tuple that differs from it in the value, the datatype (with a
\* value of its shape), the source or the confidence.
BaseAttributeValues ==
    [datatype |-> "STRING", value |-> <<"str", "a">>, source |-> "manual",
     confidence |-> 800]

AttributeValueInputs ==
    {BaseAttributeValues}
    \cup {[BaseAttributeValues EXCEPT !.value = <<"str", "b">>]}
    \cup {[BaseAttributeValues EXCEPT !.datatype = "NUMBER", !.value = <<"num", n>>] :
            n \in {1, 2}}
    \cup {[BaseAttributeValues EXCEPT !.datatype = "JSON", !.value = <<"dict", "{x:1}">>]}
    \cup {[BaseAttributeValues EXCEPT !.source = "openfigi"]}
    \cup {[BaseAttributeValues EXCEPT !.confidence = c] : c \in {805, 810, 811}}

\* Arguments wrong in one place: a malformed id, a blank key, an unknown
\* datatype, a confidence out of range, and values that are not of the shape
\* of the datatype (None is what the service passes when the slot of the
\* datatype is the one left empty).
BadAttributeInputs ==
    LET b == [syn_id |-> SynA, key |-> <<"k">>] @@ BaseAttributeValues
    IN {[b EXCEPT !.syn_id = BadSynId], [b EXCEPT !.key = <<" ">>],
        [b EXCEPT !.datatype = "BOOL"], [b EXCEPT !.confidence = 1001],
        [b EXCEPT !.value = <<"num", 1>>],
        [b EXCEPT !.datatype = "NUMBER"], [b EXCEPT !.datatype = "JSON"],
        [b EXCEPT !.value = <<"none", None>>],
        [b EXCEPT !.datatype = "NUMBER", !.value = <<"bool", TRUE>>]}

UpsertAttribute ==
    /\ CanCall
    /\ \/ \E v \in AttributeValueInputs, st \in StampInputs :
              upsert_attribute(SynA, <<"k">>, v.datatype, v.value, v.source,
                               v.confidence, st[1], st[2])
       \/ \E b \in BadAttributeInputs :
              upsert_attribute(b.syn_id, b.key, b.datatype, b.value, b.source,
                               b.confidence, NULL, NULL)

-----------------------------------------------------------------------------
(* The edge manager and the attribute manager over a registry that holds   *)
(* the model's entities.  The two managers write disjoint tables, so a     *)
(* behaviour that has written one of the tables stays with that manager.   *)

NextScd2 ==
    \/ Tick
    \/ attributes = {} /\ AddEdge
    \/ attributes = {} /\ DeleteEdge
    \/ edges = {} /\ UpsertAttribute

SpecScd2 == InitScd2 /\ [][NextScd2]_vars

-----------------------------------------------------------------------------
(* The entity cache of the service.  An entry is a key and the response   *)
(* stored under it; the key of a view of an entity is                      *)
(* "ontology:entity:<syn_id>:<include_identifiers>:<include_aliases>".     *)

cache_key(syn_id, include_identifiers, include_aliases) ==
    <<syn_id, include_identifiers, include_aliases>>

\* cache.get: the entry stored under the key, if any.
cache_get(entries, key) == {c \in entries : c.key = key}

\* cache.set: SETEX replaces what the key held.
cache_set(entries, key, response) ==
    {c \in entries : c.key # key} \cup {[key |-> key, data |-> response]}

\* cache.invalidate_pattern("ontology:entity:<syn_id>:*"): KEYS, then DEL.
invalidate_pattern(entries, syn_id) == {c \in entries : c.key[1] # syn_id}

\* invalidate_pattern for each of the affected ids.
invalidate_all(entries, affected_ids) ==
    {c \in entries : c.key[1] \notin affected_ids}

-----------------------------------------------------------------------------
(* Batch writes of the service: the items run in one transaction, which is *)
(* committed when no item raised and rolled back otherwise.                *)

\* Items of one batch request.
MaxBatch == 2
\* Batch requests made in one behaviour.
MaxBatchOps == 2

\* One add_edge inside a transaction that holds rows; aborted tells that an
\* earlier statement of the transaction failed, after which the store
\* refuses every statement until the rollback.
add_edge_item(rows, a, aborted) ==
    LET row == EdgeRow(a.src, a.dst, a.rel_type, a.attrs, a.source, a.evidence, a.confidence, now, now)
        open == OpenEdges(rows, a.src, a.dst, a.rel_type)
        closed == CloseEdges(rows, a.src, a.dst, a.rel_type, now)
        out(result, r, ab) == [result |-> result, rows |-> r, aborted |-> ab]
    IN IF ~validate_syn_id(a.src) THEN out("ValueError:src_syn_id", rows, aborted)
       ELSE IF ~validate_syn_id(a.dst) THEN out("ValueError:dst_syn_id", rows, aborted)
       ELSE IF a.src = a.dst THEN out("ValueError:same", rows, aborted)
       ELSE IF ~(0 <= a.confidence /\ a.confidence <= 1000)
       THEN out("ValueError:confidence", rows, aborted)
       ELSE IF aborted THEN out("psycopg.Error:aborted", rows, TRUE)
       ELSE IF open # {}
       THEN IF \E existing \in open :
                   EdgeChanged(existing, a.attrs, a.confidence, a.source, a.evidence)
            THEN IF InsertEdgeResult(closed, row) = "ok"
                 THEN out("(False, True)", closed \cup {row}, FALSE)
                 ELSE out(InsertEdgeResult(closed, row), closed, TRUE)
            ELSE out("(False, False)", rows, FALSE)
       ELSE IF InsertEdgeResult(rows, row) = "ok"
            THEN out("(True, False)", rows \cup {row}, FALSE)
            ELSE out(InsertEdgeResult(rows, row), rows, TRUE)

\* The value the service hands to upsert_attribute: the slot of the datatype.
NoValue == <<"none", None>>

ItemValue(a) ==
    IF a.datatype = "STRING" THEN a.value_string
    ELSE IF a.datatype = "NUMBER" THEN a.value_number
    ELSE a.value_json

value_count(a) ==
    Cardinality({f \in {"value_string", "value_number", "value_json"} : a[f] # NoValue})

\* One item of an attribute batch inside a transaction that holds rows.
upsert_attribute_item(rows, a, aborted) ==
    LET value == ItemValue(a)
        row == AttributeRow(a.syn_id, a.key, a.datatype, value, a.source, a.confidence, now, now)
        open == OpenAttributes(rows, a.syn_id, a.key)
        closed == CloseAttributes(rows, a.syn_id, a.key, now)
        out(result, r, ab) == [result |-> result, rows |-> r, aborted |-> ab]
    IN IF value_count(a) # 1 THEN out("ValueError:value_count", rows, aborted)
       ELSE IF ~validate_syn_id(a.syn_id) THEN out("ValueError:syn_id", rows, aborted)
       ELSE IF a.key = <<>> \/ Strip(a.key) = <<>> THEN out("ValueError:key", rows, aborted)
       ELSE IF a.datatype \notin Datatypes THEN out("ValueError:datatype", rows, aborted)
       ELSE IF ~(0 <= a.confidence /\ a.confidence <= 1000)
       THEN out("ValueError:confidence", rows, aborted)
       ELSE IF ~ValueMatches(a.datatype, value) THEN out("ValueError:value", rows, aborted)
       ELSE IF aborted THEN out("psycopg.Error:aborted", rows, TRUE)
       ELSE IF open # {}
       THEN IF \E existing \in open :
                   AttributeChanged(existing, a.datatype, value, a.source, a.confidence)
            THEN IF InsertAttributeResult(closed, row) = "ok"
                 THEN out("(False, True)", closed \cup {row}, FALSE)
                 ELSE out(InsertAttributeResult(closed, row), closed, TRUE)
            ELSE out("(False, False)", rows, FALSE)
       ELSE IF InsertAttributeResult(rows, row) = "ok"
            THEN out("(True, False)", rows \cup {row}, FALSE)
            ELSE out(InsertAttributeResult(rows, row), rows, TRUE)

\* The loop of a batch request over its items, from item idx on: st holds
\* the rows of the transaction, whether it is aborted, the per-item errors
\* and the two counters.
RECURSIVE run_batch(_, _, _, _)
run_batch(kind, items, idx, st) ==
    IF idx > Len(items) THEN st
    ELSE LET o == IF kind = "edges"
                  THEN add_edge_item(st.rows, items[idx], st.aborted)
                  ELSE upsert_attribute_item(st.rows, items[idx], st.aborted)
             raised == o.result \notin {"(True, False)", "(False, True)", "(False, False)"}
         IN run_batch(kind, items, idx + 1,
                [rows |-> o.rows,
                 aborted |-> o.aborted,
                 errors |-> IF raised
                            THEN Append(st.errors, [index |-> idx - 1, error |-> o.result])
                            ELSE st.errors,
                 inserted |-> st.inserted + (IF o.result = "(True, False)" THEN 1 ELSE 0),
                 updated |-> st.updated + (IF o.result = "(False, True)" THEN 1 ELSE 0)])

BatchStart(rows) ==
    [rows |-> rows, aborted |-> FALSE, errors |-> <<>>, inserted |-> 0, updated |-> 0]

\* str(e) of the HTTPException the batch raises: "<status>: <detail>" where
\* the framework's exception defines __str__, and the empty string where it
\* does not (the exception is built from keyword arguments only).
StrHTTPException(status_code, detail) == {<<>>, <<status_code, detail>>}

\* The response of a batch request whose loop ended in st.  With errors the
\* handler raises HTTPException(400, ..), which its outermost handler (except
\* Exception) catches and turns into HTTPException(500, detail=str(e)).
batch_responses(items, st) ==
    IF st.errors = <<>>
    THEN {[status |-> 200, inserted |-> st.inserted, updated |-> st.updated,
           errors |-> st.errors, total_processed |-> Len(items)]}
    ELSE {[status |-> 500, detail |-> d] :
            d \in StrHTTPException(400,
                    [message |-> "Batch failed, transaction rolled back",
                     errors |-> st.errors, attempted |-> Len(items)])}

add_edges_batch(items) ==
    LET st == run_batch("edges", items, 1, BatchStart(edges))
        affected_ids == {items[i].src : i \in DOMAIN items} \cup {items[i].dst : i \in DOMAIN items}
    IN /\ UNCHANGED <<txns, now, aliases, quarantine, entities, identifiers, attributes>>
       /\ edges' = IF st.errors = <<>> THEN st.rows ELSE edges
       /\ cache' = IF st.errors = <<>> THEN invalidate_all(cache, affected_ids) ELSE cache
       /\ \E response \in batch_responses(items, st) :
            Called("add_edges_batch", items, response, edges)

upsert_attributes_batch(items) ==
    LET st == run_batch("attributes", items, 1, BatchStart(attributes))
        affected_ids == {items[i].syn_id : i \in DOMAIN items}
    IN /\ UNCHANGED <<txns, now, aliases, quarantine, entities, identifiers, edges>>
       /\ attributes' = IF st.errors = <<>> THEN st.rows ELSE attributes
       /\ cache' = IF st.errors = <<>> THEN invalidate_all(cache, affected_ids) ELSE cache
       /\ \E response \in batch_responses(items, st) :
            Called("upsert_attributes_batch", items, response, attributes)

\* The items tried: a valid edge, the same edge from another source, a
\* self-loop, and an edge to an id no entity has.  observed_at is absent.
BaseEdgeItem ==
    [src |-> SynA, dst |-> SynB, rel_type |-> "LISTED_ON"] @@ BaseEdgeValues

EdgeItems ==
    {BaseEdgeItem, [BaseEdgeItem EXCEPT !.source = "openfigi"],
     [BaseEdgeItem EXCEPT !.dst = SynA], [BaseEdgeItem EXCEPT !.dst = SynC]}

\* The items tried: a valid attribute, the same key with another value, a
\* STRING item that carries its value in the number slot, and an attribute of
\* an id no entity has.
BaseAttributeItem ==
    [syn_id |-> SynA, key |-> <<"k">>, datatype |-> "STRING",
     value_string |-> <<"str", "a">>, value_number |-> NoValue,
     value_json |-> NoValue, source |-> "manual", confidence |-> 800]

AttributeItems ==
    {BaseAttributeItem, [BaseAttributeItem EXCEPT !.value_string = <<"str", "b">>],
     [BaseAttributeItem EXCEPT !.value_string = NoValue, !.value_number = <<"num", 1>>],
     [BaseAttributeItem EXCEPT !.syn_id = SynC]}

Batches(S) == UNION {[1..n -> S] : n \in 1..MaxBatch}

CanCallBatch == nops < MaxBatchOps

AddEdgesBatch ==
    /\ CanCallBatch
    /\ \E items \in Batches(EdgeItems) : add_edges_batch(items)

UpsertAttributesBatch ==
    /\ CanCallBatch
    /\ \E items \in Batches(AttributeItems) : upsert_attributes_batch(items)

NextBatch ==
    \/ Tick
    \/ attributes = {} /\ AddEdgesBatch
    \/ edges = {} /\ UpsertAttributesBatch

SpecBatch == InitScd2 /\ [][NextBatch]_vars

-----------------------------------------------------------------------------
(* Aliases.  The table is append-only; a row is (syn_id, alias, lang,      *)
(* source, confidence), and id tells the rows of the table apart: it is    *)
(* the place of the row in the order of insertion.                         *)

add_alias(syn_id, alias, lang, source, confidence) ==
    LET args == [syn_id |-> syn_id, alias |-> alias, lang |-> lang,
                 source |-> source, confidence |-> confidence]
        row == [id |-> Cardinality(aliases) + 1, syn_id |-> syn_id,
                alias |-> Strip(alias), lang |-> lang, source |-> source,
                confidence |-> confidence]
    IN
    /\ UNCHANGED <<txns, now, quarantine, cache, entities, identifiers, edges, attributes>>
    /\ IF ~validate_syn_id(syn_id)
       THEN /\ Called("add_alias", args, "ValueError:syn_id", aliases)
            /\ UNCHANGED aliases
       ELSE IF alias = <<>> \/ Strip(alias) = <<>>
       THEN /\ Called("add_alias", args, "ValueError:alias", aliases)
            /\ UNCHANGED aliases
       ELSE IF ~(0 <= confidence /\ confidence <= 1000)
       THEN /\ Called("add_alias", args, "ValueError:confidence", aliases)
            /\ UNCHANGED aliases
       ELSE IF ~EntityExists(syn_id)
       THEN /\ Called("add_alias", args, "psycopg.Error:fk", aliases)
            /\ UNCHANGED aliases
       ELSE /\ aliases' = aliases \cup {row}
            /\ Called("add_alias", args, None, aliases)

\* Registry reads of one entity.
get_entity(syn_id) ==
    IF ~validate_syn_id(syn_id) THEN {} ELSE {e \in entities : e.syn_id = syn_id}

get_identifiers(syn_id, active_only) ==
    IF ~validate_syn_id(syn_id) THEN {}
    ELSE {r \in identifiers :
            r.syn_id = syn_id /\ (active_only => r.valid_to = NULL)}

get_aliases(syn_id) ==
    IF ~validate_syn_id(syn_id) THEN {}
    ELSE {a \in aliases : a.syn_id = syn_id}

-----------------------------------------------------------------------------
(* The service in front of the store: reads of an entity go through the    *)
(* cache, writes go to the component and then invalidate.  The lists of a  *)
(* response are modelled by the sets of their elements.                    *)

\* Requests made in one behaviour of the service.
MaxServiceOps == 3

CanCallService == nops < MaxServiceOps

\* The response get_entity builds from the store.
entity_response(entity, include_identifiers, include_aliases) ==
    [syn_id |-> entity.syn_id, type |-> entity.type,
     canonical_name |-> entity.canonical_name, status |-> entity.status,
     identifiers |->
        IF include_identifiers
        THEN {[scheme |-> i.scheme, value |-> i.value, valid_from |-> i.valid_from,
               valid_to |-> i.valid_to] : i \in get_identifiers(entity.syn_id, TRUE)}
        ELSE {},
     aliases |->
        IF include_aliases
        THEN {[alias |-> a.alias, lang |-> a.lang, source |-> a.source,
               confidence |-> a.confidence] : a \in get_aliases(entity.syn_id)}
        ELSE {}]

\* GET /entities/{syn_id}: the cached response when the key is cached, else
\* the response built from the store, which is then cached.
api_get_entity(syn_id, include_identifiers, include_aliases) ==
    LET args == [syn_id |-> syn_id, include_identifiers |-> include_identifiers,
                 include_aliases |-> include_aliases]
        key == cache_key(syn_id, include_identifiers, include_aliases)
        cached == cache_get(cache, key)
        entity == get_entity(syn_id)
    IN
    /\ UNCHANGED <<txns, now, aliases, quarantine, entities, identifiers, edges, attributes>>
    /\ IF ~validate_syn_id(syn_id)
       THEN /\ Called("get_entity", args, [status |-> 400], cache)
            /\ UNCHANGED cache
       ELSE IF cached # {}
       THEN /\ \E c \in cached :
                Called("get_entity", args, [status |-> 200, body |-> c.data], cache)
            /\ UNCHANGED cache
       ELSE IF entity = {}
       THEN /\ Called("get_entity", args, [status |-> 404], cache)
            /\ UNCHANGED cache
       ELSE \E e \in entity :
              LET response == entity_response(e, include_identifiers, include_aliases)
              IN /\ cache' = cache_set(cache, key, response)
                 /\ Called("get_entity", args, [status |-> 200, body |-> response], cache)

\* POST /identifiers and POST /aliases: the registry call and its commit.
api_add_identifier(syn_id, scheme, value, valid_from) ==
    add_identifier(syn_id, scheme, value, valid_from)

api_add_alias(syn_id, alias, lang, source, confidence) ==
    add_alias(syn_id, alias, lang, source, confidence)

\* POST /edges: add_edge, the commit, then the invalidation of both ends.
api_add_edge(a) ==
    LET out == add_edge_item(edges, a, FALSE)
        ok == out.result \in {"(True, False)", "(False, True)", "(False, False)"}
    IN /\ UNCHANGED <<txns, now, aliases, quarantine, entities, identifiers, attributes>>
       /\ edges' = IF ok THEN out.rows ELSE edges
       /\ cache' = IF ok
                   THEN invalidate_pattern(invalidate_pattern(cache, a.src), a.dst)
                   ELSE cache
       /\ Called("add_edge", a, out.result, edges)

\* DELETE /edges: delete_edge and, when it closed a row, the commit and the
\* invalidation of both ends; 404 and no commit when it closed none.
api_delete_edge(src, dst, rel_type) ==
    LET args == [src |-> src, dst |-> dst, rel_type |-> rel_type, valid_to |-> NULL]
        valid == validate_syn_id(src) /\ validate_syn_id(dst)
        deleted == valid /\ EdgeDeleted(OpenEdges(edges, src, dst, rel_type))
    IN /\ UNCHANGED <<txns, now, aliases, quarantine, entities, identifiers, attributes>>
       /\ edges' = IF deleted THEN CloseEdges(edges, src, dst, rel_type, now) ELSE edges
       /\ cache' = IF deleted
                   THEN invalidate_pattern(invalidate_pattern(cache, src), dst)
                   ELSE cache
       /\ Called("delete_edge", args, IF deleted THEN "True" ELSE "False", edges)

\* POST /attributes: the value-slot check, upsert_attribute, the commit, then
\* the invalidation of the entity.
api_upsert_attribute(a) ==
    LET out == upsert_attribute_item(attributes, a, FALSE)
        ok == out.result \in {"(True, False)", "(False, True)", "(False, False)"}
    IN /\ UNCHANGED <<txns, now, aliases, quarantine, entities, identifiers, edges>>
       /\ attributes' = IF ok THEN out.rows ELSE attributes
       /\ cache' = IF ok THEN invalidate_pattern(cache, a.syn_id) ELSE cache
       /\ Called("upsert_attribute", a, out.result, attributes)

\* An entry leaves the cache when its time to live has run out.
Expire ==
    /\ \E c \in cache : cache' = cache \ {c}
    /\ UNCHANGED <<txns, now, nops, last, pre, entities, identifiers, edges, attributes, aliases, quarantine>>

AliasInputs == {<<"a">>, <<"b">>}

GetEntity ==
    /\ CanCallService
    /\ \E syn_id \in {SynA, SynC}, include_identifiers \in BOOLEAN, include_aliases \in BOOLEAN :
          api_get_entity(syn_id, include_identifiers, include_aliases)

ServiceAddIdentifier ==
    /\ CanCallService
    /\ api_add_identifier(SynA, "TICKER", <<"X">>, NULL)

ServiceAddAlias ==
    /\ CanCallService
    /\ \E syn_id \in {SynA, SynC}, alias \in AliasInputs :
          api_add_alias(syn_id, alias, None, None, 1000)

ServiceAddEdge ==
    /\ CanCallService
    /\ \E a \in {BaseEdgeItem, [BaseEdgeItem EXCEPT !.dst = SynC]} : api_add_edge(a)

ServiceDeleteEdge ==
    /\ CanCallService
    /\ api_delete_edge(SynA, SynB, "LISTED_ON")

ServiceUpsertAttribute ==
    /\ CanCallService
    /\ \E a \in {BaseAttributeItem, [BaseAttributeItem EXCEPT !.syn_id = SynC]} :
          api_upsert_attribute(a)

ServiceAddEdgesBatch ==
    /\ CanCallService
    /\ \E items \in Batches({BaseEdgeItem, [BaseEdgeItem EXCEPT !.dst = SynA]}) :
          add_edges_batch(items)

ServiceUpsertAttributesBatch ==
    /\ CanCallService
    /\ \E items \in Batches({BaseAttributeItem, [BaseAttributeItem EXCEPT !.syn_id = SynC]}) :
          upsert_attributes_batch(items)

NextService ==
    \/ Tick
    \/ Expire
    \/ GetEntity
    \/ ServiceAddIdentifier
    \/ ServiceAddAlias
    \/ ServiceAddEdge
    \/ ServiceDeleteEdge
    \/ ServiceUpsertAttribute
    \/ ServiceAddEdgesBatch
    \/ ServiceUpsertAttributesBatch

SpecService == InitScd2 /\ [][NextService]_vars

-----------------------------------------------------------------------------
(* Text handling of the resolver.  The letters of the model are A, B, K,   *)
(* X, Y in both cases; the other characters are the space and the dot.     *)

LowerCase == [A |-> "a", B |-> "b", K |-> "k", X |-> "x", Y |-> "y"]

IsUpper(c) == c \in DOMAIN LowerCase

lower_char(c) == IF IsUpper(c) THEN LowerCase[c] ELSE c

upper_char(c) ==
    IF \E u \in DOMAIN LowerCase : LowerCase[u] = c
    THEN CHOOSE u \in DOMAIN LowerCase : LowerCase[u] = c
    ELSE c

\* str.lower() and SQL LOWER(); SQL UPPER().
Lower(s) == [i \in 1..Len(s) |-> lower_char(s[i])]
Upper(s) == [i \in 1..Len(s) |-> upper_char(s[i])]

\* ' '.join(s.split()) of a string with no leading or trailing whitespace:
\* a run of spaces becomes one space.
RECURSIVE Collapse(_)
Collapse(s) ==
    IF Len(s) < 2 THEN s
    ELSE IF s[1] = " " /\ s[2] = " " THEN Collapse(Tail(s))
    ELSE <<s[1]>> \o Collapse(Tail(s))

\* _normalize_text: lowercase, collapse whitespace, strip.
normalize_text(text) == Strip(Collapse(Strip(Lower(text))))

\* _is_ticker_like: ^[A-Z]{1,5}(\.[A-Z])?$ on a string of 1 to 6 characters.
is_ticker_like(text) ==
    /\ Len(text) >= 1 /\ Len(text) <= 6
    /\ \E n \in 1..5 :
        /\ n <= Len(text)
        /\ \A i \in 1..n : IsUpper(text[i])
        /\ \/ Len(text) = n
           \/ /\ Len(text) = n + 2
              /\ text[n + 1] = "."
              /\ IsUpper(text[n + 2])

\* The whitespace-separated words of a string.
RECURSIVE Words(_)
Words(s) ==
    LET t == LStrip(s)
        n == IF \E i \in 1..Len(t) : t[i] = " "
             THEN (CHOOSE i \in 1..Len(t) : t[i] = " " /\ \A j \in 1..(i - 1) : t[j] # " ") - 1
             ELSE Len(t)
    IN IF t = <<>> THEN {}
       ELSE {SubSeq(t, 1, n)} \cup Words(SubSeq(t, n + 1, Len(t)))

\* The lexemes of to_tsvector('english', ..) and plainto_tsquery('english',
\* ..) for the words of the model: lowercased, the stop word "a" dropped.
StopWords == {<<"a">>}

Lexemes(s) == Words(Lower(s)) \ StopWords

\* to_tsvector(name) @@ plainto_tsquery(text): every lexeme of the query is
\* in the document; a query without lexemes matches nothing.
FullTextMatch(name, text) ==
    Lexemes(text) # {} /\ Lexemes(text) \subseteq Lexemes(name)

\* difflib.SequenceMatcher(None, a, b): the total size of the matching blocks,
\* found by taking the longest common block (the earliest in a, then the
\* earliest in b) and recursing to its left and to its right.
CommonBlocks(a, b) ==
    {<<i, j, k>> \in (1..Len(a)) \X (1..Len(b)) \X (1..Len(a)) :
        /\ i + k - 1 <= Len(a)
        /\ j + k - 1 <= Len(b)
        /\ SubSeq(a, i, i + k - 1) = SubSeq(b, j, j + k - 1)}

RECURSIVE MatchSize(_, _)
MatchSize(a, b) ==
    LET blocks == CommonBlocks(a, b)
        best == CHOOSE m \in blocks :
                    \A o \in blocks :
                        \/ m[3] > o[3]
                        \/ m[3] = o[3] /\ m[1] < o[1]
                        \/ m[3] = o[3] /\ m[1] = o[1] /\ m[2] <= o[2]
    IN IF blocks = {} THEN 0
       ELSE best[3]
            + MatchSize(SubSeq(a, 1, best[1] - 1), SubSeq(b, 1, best[2] - 1))
            + MatchSize(SubSeq(a, best[1] + best[3], Len(a)),
                        SubSeq(b, best[2] + best[3], Len(b)))

\* CONFIDENCE_CANONICAL * ratio(), in thousandths (rounded down), where
\* ratio() is 2 * matches / (len(a) + len(b)) and 1 for two empty strings.
CONFIDENCE_CANONICAL == 850

canonical_confidence(a, b) ==
    IF Len(a) + Len(b) = 0 THEN CONFIDENCE_CANONICAL
    ELSE (CONFIDENCE_CANONICAL * 2 * MatchSize(a, b)) \div (Len(a) + Len(b))

\* The trigrams pg_trgm takes from a string: each word, lowercased, padded
\* with two spaces in front and one behind.
Trigrams(s) ==
    UNION {{SubSeq(<<" ", " ">> \o w \o <<" ">>, i, i + 2) : i \in 1..(Len(w) + 1)} :
            w \in Words(Lower(s))}

\* similarity(a, b), as the pair (shared trigrams, all trigrams).
similarity(a, b) ==
    <<Cardinality(Trigrams(a) \cap Trigrams(b)), Cardinality(Trigrams(a) \cup Trigrams(b))>>

\* a % b: the similarity is at least pg_trgm.similarity_threshold (0.3).
Similar(a, b) ==
    LET sim == similarity(a, b)
    IN sim[2] > 0 /\ 10 * sim[1] >= 3 * sim[2]

-----------------------------------------------------------------------------
(* The resolver.  A confidence is a number of thousandths.  The candidates *)
(* of a stage are the rows of its query (fewer than its LIMIT); where the  *)
(* query leaves the order of rows open, every order is an outcome.         *)

CONFIDENCE_EXACT_TICKER == 1000
CONFIDENCE_EXACT_ALIAS == 950
CONFIDENCE_FUZZY_HIGH == 900
CONFIDENCE_FUZZY_MEDIUM == 800
CONFIDENCE_FUZZY_LOW == 700
CONFIDENCE_THRESHOLD == 950

Min(a, b) == IF a <= b THEN a ELSE b

Candidate(syn_id, canonical_name, entity_type, matched_via, matched_value, confidence) ==
    [syn_id |-> syn_id, canonical_name |-> canonical_name,
     entity_type |-> entity_type, matched_via |-> matched_via,
     matched_value |-> matched_value, confidence |-> confidence]

\* The rows of the aliases table.
AliasRows == aliases

find_ticker_candidates(text) ==
    {Candidate(p[1].syn_id, p[2].canonical_name, p[2].type, "TICKER", p[1].value,
               CONFIDENCE_EXACT_TICKER) :
        p \in {q \in identifiers \X entities :
                /\ q[1].syn_id = q[2].syn_id
                /\ q[1].scheme = "TICKER"
                /\ Upper(q[1].value) = Upper(text)
                /\ q[1].valid_to = NULL
                /\ q[2].status = "ACTIVE"}}

\* row['alias_confidence'] or 1.0: a NULL and a zero confidence both give 1.0.
alias_confidence_or(alias_confidence) ==
    IF alias_confidence = NULL \/ alias_confidence = 0 THEN 1000 ELSE alias_confidence

exact_alias_confidence(alias_confidence) ==
    Min(alias_confidence_or(alias_confidence), CONFIDENCE_EXACT_ALIAS)

\* The alias's own confidence, the tier of the similarity left out.
fuzzy_alias_confidence_of_alias(sim_score, alias_confidence) ==
    alias_confidence_or(alias_confidence)

fuzzy_alias_confidence(sim_score, alias_confidence) ==
    \* sim_score is a float4: the one nearest to 0.9 is below the double 0.9,
    \* the one nearest to 0.8 is above the double 0.8.
    LET tier == IF 10 * sim_score[1] > 9 * sim_score[2] THEN CONFIDENCE_FUZZY_HIGH
                ELSE IF 10 * sim_score[1] >= 8 * sim_score[2] THEN CONFIDENCE_FUZZY_MEDIUM
                ELSE CONFIDENCE_FUZZY_LOW
    IN Min(tier, alias_confidence_or(alias_confidence))

find_alias_candidates(text, exact) ==
    LET normalized == normalize_text(text)
        joined == {q \in AliasRows \X entities :
                      q[1].syn_id = q[2].syn_id /\ q[2].status = "ACTIVE"}
    IN IF exact
       THEN {Candidate(p[1].syn_id, p[2].canonical_name, p[2].type, "ALIAS",
                       p[1].alias, exact_alias_confidence(p[1].confidence)) :
                p \in {q \in joined : Lower(q[1].alias) = normalized}}
       ELSE {Candidate(p[1].syn_id, p[2].canonical_name, p[2].type, "ALIAS_FUZZY",
                       p[1].alias,
                       fuzzy_alias_confidence(similarity(Lower(p[1].alias), normalized),
                                              p[1].confidence)) :
                p \in {q \in joined : Similar(Lower(q[1].alias), normalized)}}

find_canonical_name_candidates_any_status(text) ==
    LET normalized == normalize_text(text)
    IN {Candidate(e.syn_id, e.canonical_name, e.type, "CANONICAL_NAME",
                  e.canonical_name,
                  canonical_confidence(normalized, normalize_text(e.canonical_name))) :
            e \in {x \in entities : FullTextMatch(x.canonical_name, text)}}

find_canonical_name_candidates(text) ==
    LET normalized == normalize_text(text)
    IN {Candidate(e.syn_id, e.canonical_name, e.type, "CANONICAL_NAME",
                  e.canonical_name,
                  canonical_confidence(normalized, normalize_text(e.canonical_name))) :
            e \in {x \in entities :
                    x.status = "ACTIVE" /\ FullTextMatch(x.canonical_name, text)}}

\* The four stages of resolve, each run whatever the stages before it gave.
cascade_every_stage(text) ==
    (IF is_ticker_like(text) THEN find_ticker_candidates(text) ELSE {})
        \cup find_alias_candidates(text, TRUE)
        \cup find_canonical_name_candidates(text)
        \cup find_alias_candidates(text, FALSE)

\* The cascade of resolve on the stripped text: a stage runs only when the
\* stages before it gave nothing.
cascade(text) ==
    LET ticker == IF is_ticker_like(text) THEN find_ticker_candidates(text) ELSE {}
        alias == IF ticker # {} THEN ticker ELSE find_alias_candidates(text, TRUE)
        canonical == IF alias # {} THEN alias ELSE find_canonical_name_candidates(text)
    IN IF canonical # {} THEN canonical ELSE find_alias_candidates(text, FALSE)

\* The type filter of resolve; None and the empty string filter nothing.
type_filtered(candidates, entity_type_filter) ==
    IF entity_type_filter = None \/ entity_type_filter = ""
    THEN candidates
    ELSE {c \in candidates : c.entity_type = entity_type_filter}

\* A deduplication that keeps any one candidate of each syn_id.
deduplicated_any(candidates) ==
    {D \in SUBSET candidates :
        /\ \A c \in candidates : \E d \in D : d.syn_id = c.syn_id
        /\ \A d1, d2 \in D : d1.syn_id = d2.syn_id => d1 = d2}

\* The outcomes of the deduplication: for each syn_id one candidate of the
\* highest confidence among the candidates of that syn_id.
deduplicated(candidates) ==
    {D \in SUBSET candidates :
        /\ \A c \in candidates : \E d \in D : d.syn_id = c.syn_id
        /\ \A d1, d2 \in D : d1.syn_id = d2.syn_id => d1 = d2
        /\ \A d \in D : \A c \in candidates :
              c.syn_id = d.syn_id => c.confidence <= d.confidence}

\* The outcomes of the sort by confidence, descending.
\* The list whose items are f[1], .., f[n].
RECURSIVE ListOf(_, _)
ListOf(f, n) == IF n = 0 THEN <<>> ELSE Append(ListOf(f, n - 1), f[n])

\* The lists that hold each element of D once.
Listings(D) ==
    {ListOf(f, Cardinality(D)) :
        f \in {g \in [1..Cardinality(D) -> D] :
                \A i, j \in DOMAIN g : i # j => g[i] # g[j]}}

sorted_by_confidence_ascending(D) ==
    {l \in Listings(D) :
        \A i, j \in DOMAIN l : i < j => l[i].confidence <= l[j].confidence}

sorted_by_confidence(D) ==
    {l \in Listings(D) :
        \A i, j \in DOMAIN l : i < j => l[i].confidence >= l[j].confidence}

\* resolve: the outcomes (best, all_candidates); best is <<>> for None and
\* <<candidate>> for a candidate.
resolve(text, entity_type_filter) ==
    IF text = <<>> \/ Strip(text) = <<>>
    THEN {[best |-> <<>>, all_candidates |-> <<>>]}
    ELSE {[best |-> IF all_candidates # <<>>
                       /\ all_candidates[1].confidence >= CONFIDENCE_THRESHOLD
                    THEN <<all_candidates[1]>>
                    ELSE <<>>,
           all_candidates |-> all_candidates] :
            all_candidates \in
                UNION {sorted_by_confidence(D) :
                        D \in deduplicated(type_filtered(cascade(Strip(text)),
                                                         entity_type_filter))}}

\* Confidences are Python floats.  The double nearest to k thousandths is
\* k / 1000 + float_error(k) / (1000 * 2^(53 + Doublings(k))): Doublings(k)
\* brings k / 1000 into [0.5, 1), where doubles are 2^-53 apart, and 2^53 is
\* 992 modulo 1000.  (0.0 and 1.0 are doubles.)
RECURSIVE Doublings(_)
Doublings(k) == IF k >= 500 THEN 0 ELSE 1 + Doublings(2 * k)

RECURSIVE Pow2(_)
Pow2(n) == IF n = 0 THEN 1 ELSE 2 * Pow2(n - 1)

float_error(k) ==
    IF k = 0 \/ k = 1000 THEN 0
    ELSE LET m == (k * ((992 * Pow2(Doublings(k))) % 1000)) % 1000
         IN IF m < 500 THEN 0 - m ELSE 1000 - m

\* a - b < 100 in exact thousandths.
difference_below_tenth_exactly(a, b) == a - b < 100

\* a - b < 0.1 on floats, for a >= b of at least 0.1 (the subtraction is then
\* exact): the double 0.1 is 0.1 + 50 / (1000 * 2^53).
difference_below_tenth(a, b) ==
    IF a - b # 100 THEN a - b < 100
    ELSE LET s == IF Doublings(a) > Doublings(b) THEN Doublings(a) ELSE Doublings(b)
         IN float_error(a) * Pow2(s - Doublings(a)) - float_error(b) * Pow2(s - Doublings(b))
                < 50 * Pow2(s)

\* The reason resolve_or_quarantine gives for a quarantine.
quarantine_reason(all_candidates) ==
    IF all_candidates = <<>> THEN "No candidates found"
    ELSE IF Len(all_candidates) > 1
            /\ difference_below_tenth(all_candidates[1].confidence,
                                      all_candidates[2].confidence)
    THEN "Ambiguous"
    ELSE "Low confidence"

\* A context is <<>> for None and <<dict>> for a dict; the dict is its
\* caller's entries (given) and the list under its key 'candidates'.
NoContext == <<>>

with_candidates(context, candidates) ==
    IF candidates = <<>> THEN context
    ELSE <<[given |-> IF context = NoContext THEN {} ELSE context[1].given,
            candidates |-> candidates]>>

\* The parameters of the INSERT are passed as they are: the driver sends None
\* as NULL and has no adapter for a dict that is not wrapped (as Jsonb).
Adapts(context) == context = NoContext

\* quarantine: the row added to entity_quarantine, and the id it gets.
\* The NULL of the column resolved_syn_id.
NullSynId == <<>>

quarantine_row(raw_identifier, scheme, context, reason) ==
    [id |-> Cardinality(quarantine) + 1, raw_identifier |-> raw_identifier,
     scheme |-> scheme, context |-> context, reason |-> reason,
     ingested_at |-> now, resolved_syn_id |-> NullSynId, resolved_at |-> NULL,
     resolved_by |-> None]

\* What a call of the resolver gave: the exception it raised if any, else the
\* pair (syn_id, quarantine_id), with <<>> and NULL for None.
LinkResult(raised, syn_id, quarantine_id) ==
    [raised |-> raised, syn_id |-> syn_id, quarantine_id |-> quarantine_id]

resolve_or_quarantine(text, context, entity_type_filter) ==
    LET args == [text |-> text, context |-> context,
                 entity_type_filter |-> entity_type_filter]
    IN
    /\ UNCHANGED <<txns, now, aliases, cache, entities, identifiers, edges, attributes>>
    /\ \E r \in resolve(text, entity_type_filter) :
        LET stored == with_candidates(context, r.all_candidates)
            row == quarantine_row(text, None, stored,
                                  quarantine_reason(r.all_candidates))
        IN IF r.best # <<>>
           THEN /\ UNCHANGED quarantine
                /\ Called("resolve_or_quarantine", args,
                          LinkResult("", r.best[1].syn_id, NULL), quarantine)
           ELSE IF Adapts(stored)
           THEN /\ quarantine' = quarantine \cup {row}
                /\ Called("resolve_or_quarantine", args,
                          LinkResult("", <<>>, row.id), quarantine)
           ELSE /\ UNCHANGED quarantine
                /\ Called("resolve_or_quarantine", args,
                          LinkResult("psycopg.ProgrammingError", <<>>, NULL),
                          quarantine)

\* A call of resolve; it writes nothing.
resolve_call(text, entity_type_filter) ==
    /\ UNCHANGED <<txns, now, aliases, quarantine, cache, entities, identifiers, edges, attributes>>
    /\ \E r \in resolve(text, entity_type_filter) :
          Called("resolve", [text |-> text, entity_type_filter |-> entity_type_filter],
                 r, quarantine)

-----------------------------------------------------------------------------
(* The resolver over a registry of two active companies, to which          *)
(* identifiers and aliases are added.                                      *)

\* Calls made in one behaviour of the resolver.
MaxLinkerOps == 3

CanCallLinker == nops < MaxLinkerOps

LinkerEntities ==
    {[syn_id |-> SynA, type |-> "COMPANY", canonical_name |-> <<"X", " ", "b">>,
      status |-> "ACTIVE"],
     [syn_id |-> SynB, type |-> "COMPANY", canonical_name |-> <<"X">>,
      status |-> "ACTIVE"]}

InitLinker ==
    /\ now = 0
    /\ nops = 0
    /\ last = NoCall
    /\ pre = {}
    /\ entities = LinkerEntities
    /\ identifiers = {}
    /\ edges = {}
    /\ attributes = {}
    /\ aliases = {}
    /\ quarantine = {}
    /\ cache = {}
    /\ txns = NoTxns

\* The texts resolved: a ticker-like text, the same in lower case, a text
\* near an alias only, a text nothing matches, and a blank.
LinkerTexts == {<<"K">>, <<"x">>, <<"x", "b", "k", "y">>, <<"y">>, <<" ">>}

LinkerAliases == {<<"x">>, <<"x", "b", "k">>}

LinkerConfidences == {0, 900, 1000}

LinkerFilters == {None, "SECURITY"}

LinkerContexts == {NoContext, <<[given |-> {"doc"}, candidates |-> <<>>]>>}

LinkerAddIdentifier ==
    /\ CanCallLinker
    /\ \E syn_id \in SynIds : add_identifier(syn_id, "TICKER", <<"K">>, NULL)

LinkerAddAlias ==
    /\ CanCallLinker
    /\ \E syn_id \in SynIds, alias \in LinkerAliases, confidence \in LinkerConfidences :
          add_alias(syn_id, alias, None, None, confidence)

Resolve ==
    /\ CanCallLinker
    /\ \E text \in LinkerTexts, entity_type_filter \in LinkerFilters :
          resolve_call(text, entity_type_filter)

ResolveOrQuarantine ==
    /\ CanCallLinker
    /\ \E text \in LinkerTexts, context \in LinkerContexts, entity_type_filter \in LinkerFilters :
          resolve_or_quarantine(text, context, entity_type_filter)

NextLinker ==
    \/ LinkerAddIdentifier
    \/ LinkerAddAlias
    \/ Resolve
    \/ ResolveOrQuarantine

SpecLinker == InitLinker /\ [][NextLinker]_vars

-----------------------------------------------------------------------------
(* The resolver over a registry whose second company was created with a    *)
(* status other than ACTIVE (create_entity takes the status; no operation  *)
(* changes it afterwards).                                                 *)

InitLinkerStatus ==
    /\ now = 0
    /\ nops = 0
    /\ last = NoCall
    /\ pre = {}
    /\ \E status \in {"INACTIVE", "MERGED"} :
          entities = {e \in LinkerEntities : e.syn_id = SynA}
                        \cup {[syn_id |-> SynB, type |-> "COMPANY",
                                canonical_name |-> <<"X">>, status |-> status]}
    /\ identifiers = {}
    /\ edges = {}
    /\ attributes = {}
    /\ aliases = {}
    /\ quarantine = {}
    /\ cache = {}
    /\ txns = NoTxns

StatusAddAlias ==
    /\ CanCallLinker
    /\ \E syn_id \in SynIds, alias \in LinkerAliases :
          add_alias(syn_id, alias, None, None, 1000)

StatusResolve ==
    /\ CanCallLinker
    /\ \E text \in LinkerTexts : resolve_call(text, None)

StatusResolveOrQuarantine ==
    /\ CanCallLinker
    /\ \E text \in LinkerTexts : resolve_or_quarantine(text, NoContext, None)

NextLinkerStatus ==
    \/ LinkerAddIdentifier
    \/ StatusAddAlias
    \/ StatusResolve
    \/ StatusResolveOrQuarantine

SpecLinkerStatus == InitLinkerStatus /\ [][NextLinkerStatus]_vars

-----------------------------------------------------------------------------
(* The reason of a quarantine, over the registry of two companies and      *)
(* aliases near one text: one that differs from it by a doubled blank      *)
(* (similarity 1.0), one with a fifth word (0.8) and one with two of its   *)
(* four words (0.5).                                                       *)

ReasonText == <<"b", " ", "k", " ", "x", " ", "y">>

ReasonAliases ==
    {<<"b", " ", " ", "k", " ", "x", " ", "y">>,
     <<"b", " ", "k", " ", "x", " ", "y", " ", "a">>,
     <<"b", " ", "k">>}

ReasonAddAlias ==
    /\ CanCallLinker
    /\ \E syn_id \in SynIds, alias \in ReasonAliases :
          add_alias(syn_id, alias, None, None, 1000)

\* resolve_or_quarantine up to the reason it hands to quarantine.
ReasonOfQuarantine ==
    /\ CanCallLinker
    /\ \E text \in {ReasonText, <<"y">>} :
        \E r \in resolve(text, None) :
          /\ r.best = <<>>
          /\ Called("quarantine_reason", [text |-> text, all_candidates |-> r.all_candidates],
                    quarantine_reason(r.all_candidates), quarantine)
    /\ UNCHANGED <<txns, now, aliases, quarantine, cache, entities, identifiers, edges, attributes>>

NextReason ==
    \/ ReasonAddAlias
    \/ ReasonOfQuarantine

SpecReason == InitLinker /\ [][NextReason]_vars

-----------------------------------------------------------------------------
(* The resolver over a registry of one company and one security whose      *)
(* names share a word, so that a stage can give candidates of one type     *)
(* while a later stage would give candidates of the other.                 *)

CascadeEntities ==
    {[syn_id |-> SynA, type |-> "COMPANY", canonical_name |-> <<"X", " ", "b">>,
      status |-> "ACTIVE"],
     [syn_id |-> SynS, type |-> "SECURITY", canonical_name |-> <<"X">>,
      status |-> "ACTIVE"]}

InitCascade ==
    /\ now = 0
    /\ nops = 0
    /\ last = NoCall
    /\ pre = {}
    /\ entities = CascadeEntities
    /\ identifiers = {}
    /\ edges = {}
    /\ attributes = {}
    /\ aliases = {}
    /\ quarantine = {}
    /\ cache = {}
    /\ txns = NoTxns

CascadeIds == {SynA, SynS}

\* A ticker-like text and a text that is a word of both names.
CascadeTexts == {<<"K">>, <<"x">>}

CascadeAliases == {<<"x">>}

CascadeFilters == {None, "SECURITY"}

CascadeConfidences == {900, 1000}

\* Calls made in one behaviour of the cascade.
MaxCascadeOps == 4

CanCallCascade == nops < MaxCascadeOps

CascadeAddIdentifier ==
    /\ CanCallCascade
    /\ \E syn_id \in CascadeIds : add_identifier(syn_id, "TICKER", <<"K">>, NULL)

CascadeAddAlias ==
    /\ CanCallCascade
    /\ \E syn_id \in CascadeIds, alias \in CascadeAliases, confidence \in CascadeConfidences :
          add_alias(syn_id, alias, None, None, confidence)

CascadeResolve ==
    /\ CanCallCascade
    /\ \E text \in CascadeTexts, entity_type_filter \in CascadeFilters :
          resolve_call(text, entity_type_filter)

NextCascade ==
    \/ CascadeAddIdentifier
    \/ CascadeAddAlias
    \/ CascadeResolve

SpecCascade == InitCascade /\ [][NextCascade]_vars

-----------------------------------------------------------------------------
(* Concurrent requests.  Each request runs in its own transaction on its   *)
(* own connection; the tables above hold the committed rows, and txns[w]   *)
(* holds request w's position in its handler, the rows it fetched, and the *)
(* rows it has inserted or closed but not yet committed.  Statements run   *)
(* under READ COMMITTED: a SELECT sees the committed rows and the          *)
(* transaction's own writes.                                               *)

Writers == {1, 2}

Other(w) == CHOOSE v \in Writers : v # w

IdleTxn ==
    [pc |-> "idle", op |-> "none", args |-> <<>>, existing |-> {}, targets |-> {},
     written |-> {}, closed |-> {}, result |-> "none"]

\* The position of a request that has left its handler.
Finished(w) == txns[w].pc = "done"

\* A request leaves its handler: with its result after the commit, or with
\* the exception, which closes the connection block and rolls back.
Leave(w, result) ==
    txns' = [txns EXCEPT ![w] = [@ EXCEPT !.pc = "done", !.written = {},
                                          !.closed = {}, !.result = result]]

-----------------------------------------------------------------------------
(* Two writers adding an identifier, each for its own entity.              *)

WriterSynId == <<SynA, SynB>>

ConcurrentValues == {<<"X">>, <<"Y">>}

\* The request arrives; add_identifier validates and takes valid_from = now.
BeginAddIdentifier(w) ==
    /\ txns[w].pc = "idle"
    /\ \E value \in ConcurrentValues :
          txns' = [txns EXCEPT ![w] =
                      [IdleTxn EXCEPT !.pc = "select", !.op = "add_identifier",
                          !.args = [syn_id |-> WriterSynId[w], scheme |-> "TICKER",
                                    value |-> value, valid_from |-> now]]]
    /\ UNCHANGED <<now, nops, last, pre, entities, identifiers, edges, attributes, aliases, quarantine, cache>>

IdentifierRow(args) ==
    [syn_id |-> args.syn_id, scheme |-> args.scheme, value |-> Strip(args.value),
     valid_from |-> args.valid_from, valid_to |-> NULL]

\* SELECT syn_id FROM identifiers WHERE scheme, value, valid_to IS NULL; the
\* collision test on the fetched row raises ValueError.
SelectIdentifier(w) ==
    LET args == txns[w].args
        open == OpenIdentifiers(args.scheme, Strip(args.value))
    IN
    /\ txns[w].pc = "select"
    /\ \/ \E existing \in open :
             /\ IdentifierCollision(existing, args.syn_id)
             /\ Leave(w, "ValueError:collision")
             /\ Called("add_identifier", args, "ValueError:collision", identifiers)
       \/ /\ \/ open = {}
             \/ \E existing \in open : ~IdentifierCollision(existing, args.syn_id)
          /\ txns' = [txns EXCEPT ![w] = [@ EXCEPT !.pc = "insert", !.existing = open]]
          /\ UNCHANGED <<nops, last, pre>>
    /\ UNCHANGED <<now, entities, identifiers, edges, attributes, aliases, quarantine, cache>>

\* The rows another transaction has inserted and not committed: an INSERT
\* that a unique index sets against one of them waits for that transaction.
WaitsForIdentifier(w, row) ==
    \/ IdentifierKeyTaken(txns[Other(w)].written, row)
    \/ IdentifierOpenTaken(txns[Other(w)].written, row)

\* INSERT ... ON CONFLICT (syn_id, scheme, valid_from) DO NOTHING, against
\* the committed rows once no uncommitted row is in its way.
InsertIdentifierStep(w) ==
    LET args == txns[w].args
        row == IdentifierRow(args)
        result == InsertIdentifierResult(identifiers, row)
    IN
    /\ txns[w].pc = "insert"
    /\ ~WaitsForIdentifier(w, row)
    /\ IF result = "ok"
       THEN /\ txns' = [txns EXCEPT ![w] =
                          [@ EXCEPT !.pc = "commit",
                              !.written = InsertIdentifier(identifiers, row) \ identifiers]]
            /\ UNCHANGED <<nops, last, pre>>
       ELSE /\ Leave(w, result)
            /\ Called("add_identifier", args, result, identifiers)
    /\ UNCHANGED <<now, entities, identifiers, edges, attributes, aliases, quarantine, cache>>

\* self.conn.commit(), and the handler returns its success body.
CommitIdentifier(w) ==
    /\ txns[w].pc = "commit"
    /\ identifiers' = identifiers \cup txns[w].written
    /\ Leave(w, "ok")
    /\ Called("add_identifier", txns[w].args, "ok", identifiers)
    /\ UNCHANGED <<now, entities, edges, attributes, aliases, quarantine, cache>>

InitConcurrentIdentifiers ==
    /\ now = 0
    /\ nops = 0
    /\ last = NoCall
    /\ pre = {}
    /\ entities = LinkerEntities
    /\ identifiers = {}
    /\ edges = {}
    /\ attributes = {}
    /\ aliases = {}
    /\ quarantine = {}
    /\ cache = {}
    /\ txns = [w \in Writers |-> IdleTxn]

WriterBegins == \E w \in Writers : BeginAddIdentifier(w)
WriterSelects == \E w \in Writers : SelectIdentifier(w)
WriterInserts == \E w \in Writers : InsertIdentifierStep(w)
WriterCommits == \E w \in Writers : CommitIdentifier(w)

NextConcurrentIdentifiers ==
    \/ Tick
    \/ WriterBegins
    \/ WriterSelects
    \/ WriterInserts
    \/ WriterCommits

SpecConcurrentIdentifiers ==
    InitConcurrentIdentifiers /\ [][NextConcurrentIdentifiers]_vars

-----------------------------------------------------------------------------
(* Two requests writing the same edge key, and two writing the same        *)
(* attribute key.  An UPDATE that meets a row another transaction has       *)
(* closed and not committed waits for that transaction, and then closes    *)
(* the rows of its snapshot that are still open; an INSERT waits for the    *)
(* transaction that holds an uncommitted row or an uncommitted close in    *)
(* the way of a unique index.                                              *)

\* The unique partial index on edges (src, dst, rel_type) where valid_to is
\* null.
EdgeOpenTakenOff(rows, row) == FALSE

EdgeOpenTaken(rows, row) ==
    OpenEdges(rows, row.src, row.dst, row.rel_type) # {}

\* The unique partial index on attributes (syn_id, key) where valid_to is null.
AttributeOpenTakenOff(rows, row) == FALSE

AttributeOpenTaken(rows, row) ==
    OpenAttributes(rows, row.syn_id, row.key) # {}

\* INSERT under the table's key and its open-version index.
InsertEdgeChecked(rows, row) ==
    IF InsertEdgeResult(rows, row) # "ok" THEN InsertEdgeResult(rows, row)
    ELSE IF EdgeOpenTaken(rows, row) THEN "psycopg.Error:unique"
    ELSE "ok"

InsertAttributeChecked(rows, row) ==
    IF InsertAttributeResult(rows, row) # "ok" THEN InsertAttributeResult(rows, row)
    ELSE IF AttributeOpenTaken(rows, row) THEN "psycopg.Error:unique"
    ELSE "ok"

\* The committed rows as transaction w sees and leaves them: the rows it has
\* closed carry its valid_to, and the rows it has inserted are there.
Closing(w) == {[r EXCEPT !.valid_to = txns[w].args.valid_from] : r \in txns[w].closed}

Own(w, rows) == ((rows \ txns[w].closed) \cup Closing(w)) \cup txns[w].written

\* The rows the other transaction holds locked: closed and not committed.
Locked(w) == txns[Other(w)].closed

\* The (created, changed) pair the method returns after its INSERT.
ReturnsAfterInsert(w) ==
    IF txns[w].existing = {} THEN "(True, False)" ELSE "(False, True)"

ConcurrentConfidences == {800, 900, 950}

\* The open row a key may hold when the two requests arrive.
OpenEdgeAtStart ==
    EdgeRow(SynA, SynB, "LISTED_ON", BaseEdgeValues.attrs, BaseEdgeValues.source,
            BaseEdgeValues.evidence, BaseEdgeValues.confidence, 0, 0)

BeginAddEdge(w) ==
    /\ txns[w].pc = "idle"
    /\ txns[Other(w)].op \in {"none", "add_edge"}
    /\ \E confidence \in ConcurrentConfidences :
          txns' = [txns EXCEPT ![w] =
                      [IdleTxn EXCEPT !.pc = "select", !.op = "add_edge",
                          !.args = [src |-> SynA, dst |-> SynB, rel_type |-> "LISTED_ON",
                                    source |-> BaseEdgeValues.source,
                                    confidence |-> confidence,
                                    attrs |-> BaseEdgeValues.attrs,
                                    evidence |-> BaseEdgeValues.evidence,
                                    observed_at |-> now, valid_from |-> now]]]
    /\ UNCHANGED <<now, nops, last, pre, entities, identifiers, edges, attributes, aliases, quarantine, cache>>

\* SELECT the open edge of the key and test it for a significant change.
SelectEdge(w) ==
    LET args == txns[w].args
        open == OpenEdges(edges, args.src, args.dst, args.rel_type)
    IN
    /\ txns[w].pc = "select"
    /\ txns[w].op = "add_edge"
    /\ IF open # {}
       THEN \E existing \in open :
               IF EdgeChanged(existing, args.attrs, args.confidence, args.source,
                              args.evidence)
               THEN /\ txns' = [txns EXCEPT ![w] =
                                   [@ EXCEPT !.pc = "close", !.existing = {existing}]]
                    /\ UNCHANGED <<nops, last, pre>>
               ELSE /\ Leave(w, "(False, False)")
                    /\ Called("add_edge", args, "(False, False)", edges)
       ELSE /\ txns' = [txns EXCEPT ![w] = [@ EXCEPT !.pc = "insert"]]
            /\ UNCHANGED <<nops, last, pre>>
    /\ UNCHANGED <<now, entities, identifiers, edges, attributes, aliases, quarantine, cache>>

\* UPDATE edges SET valid_to WHERE <key> AND valid_to IS NULL.
CloseEdge(w) ==
    LET args == txns[w].args
        targets == OpenEdges(edges, args.src, args.dst, args.rel_type)
    IN
    /\ txns[w].pc = "close"
    /\ txns[w].op = "add_edge"
    /\ txns' = [txns EXCEPT ![w] =
                  IF targets \cap Locked(w) # {}
                  THEN [@ EXCEPT !.pc = "close_wait", !.targets = targets]
                  ELSE [@ EXCEPT !.pc = "insert", !.closed = targets]]
    /\ UNCHANGED <<now, nops, last, pre, entities, identifiers, edges, attributes, aliases, quarantine, cache>>

\* The waiting UPDATE goes on when the other transaction has ended: it
\* closes the rows of its snapshot that are still as it saw them.
ResumeCloseEdge(w) ==
    /\ txns[w].pc = "close_wait"
    /\ txns[w].op = "add_edge"
    /\ txns[w].targets \cap Locked(w) = {}
    /\ txns' = [txns EXCEPT ![w] =
                  [@ EXCEPT !.pc = "insert", !.closed = txns[w].targets \cap edges]]
    /\ UNCHANGED <<now, nops, last, pre, entities, identifiers, edges, attributes, aliases, quarantine, cache>>

ConcurrentEdgeRow(args) ==
    EdgeRow(args.src, args.dst, args.rel_type, args.attrs, args.source,
            args.evidence, args.confidence, args.valid_from, args.observed_at)

WaitsForEdge(w, row) ==
    \/ EdgeKeyTaken(txns[Other(w)].written, row)
    \/ EdgeOpenTaken(txns[Other(w)].written, row)
    \/ EdgeOpenTaken(Locked(w), row)

\* INSERT INTO edges.
InsertEdgeStep(w) ==
    LET args == txns[w].args
        row == ConcurrentEdgeRow(args)
        result == InsertEdgeChecked(Own(w, edges), row)
    IN
    /\ txns[w].pc = "insert"
    /\ txns[w].op = "add_edge"
    /\ ~WaitsForEdge(w, row)
    /\ IF result = "ok"
       THEN /\ txns' = [txns EXCEPT ![w] = [@ EXCEPT !.pc = "commit", !.written = {row}]]
            /\ UNCHANGED <<nops, last, pre>>
       ELSE /\ Leave(w, result)
            /\ Called("add_edge", args, result, edges)
    /\ UNCHANGED <<now, entities, identifiers, edges, attributes, aliases, quarantine, cache>>

\* conn.commit() in the handler, which then returns the method's pair.
CommitEdge(w) ==
    /\ txns[w].pc = "commit"
    /\ txns[w].op = "add_edge"
    /\ edges' = Own(w, edges)
    /\ Leave(w, ReturnsAfterInsert(w))
    /\ Called("add_edge", txns[w].args, ReturnsAfterInsert(w), edges)
    /\ UNCHANGED <<now, entities, identifiers, attributes, aliases, quarantine, cache>>

ConcurrentValuesOfAttribute == {<<"str", "a">>, <<"str", "b">>, <<"str", "c">>}

OpenAttributeAtStart ==
    AttributeRow(SynA, <<"k">>, BaseAttributeValues.datatype,
                 BaseAttributeValues.value, BaseAttributeValues.source,
                 BaseAttributeValues.confidence, 0, 0)

BeginUpsertAttribute(w) ==
    /\ txns[w].pc = "idle"
    /\ txns[Other(w)].op \in {"none", "upsert_attribute"}
    /\ \E value \in ConcurrentValuesOfAttribute :
          txns' = [txns EXCEPT ![w] =
                      [IdleTxn EXCEPT !.pc = "select", !.op = "upsert_attribute",
                          !.args = [syn_id |-> SynA, key |-> <<"k">>,
                                    datatype |-> BaseAttributeValues.datatype,
                                    value |-> value,
                                    source |-> BaseAttributeValues.source,
                                    confidence |-> BaseAttributeValues.confidence,
                                    observed_at |-> now, valid_from |-> now]]]
    /\ UNCHANGED <<now, nops, last, pre, entities, identifiers, edges, attributes, aliases, quarantine, cache>>

\* SELECT the open attribute of the key and test it for a significant change.
SelectAttribute(w) ==
    LET args == txns[w].args
        open == OpenAttributes(attributes, args.syn_id, args.key)
    IN
    /\ txns[w].pc = "select"
    /\ txns[w].op = "upsert_attribute"
    /\ IF open # {}
       THEN \E existing \in open :
               IF AttributeChanged(existing, args.datatype, args.value, args.source,
                                   args.confidence)
               THEN /\ txns' = [txns EXCEPT ![w] =
                                   [@ EXCEPT !.pc = "close", !.existing = {existing}]]
                    /\ UNCHANGED <<nops, last, pre>>
               ELSE /\ Leave(w, "(False, False)")
                    /\ Called("upsert_attribute", args, "(False, False)", attributes)
       ELSE /\ txns' = [txns EXCEPT ![w] = [@ EXCEPT !.pc = "insert"]]
            /\ UNCHANGED <<nops, last, pre>>
    /\ UNCHANGED <<now, entities, identifiers, edges, attributes, aliases, quarantine, cache>>

\* UPDATE attributes SET valid_to WHERE syn_id, key AND valid_to IS NULL.
CloseAttribute(w) ==
    LET args == txns[w].args
        targets == OpenAttributes(attributes, args.syn_id, args.key)
    IN
    /\ txns[w].pc = "close"
    /\ txns[w].op = "upsert_attribute"
    /\ txns' = [txns EXCEPT ![w] =
                  IF targets \cap Locked(w) # {}
                  THEN [@ EXCEPT !.pc = "close_wait", !.targets = targets]
                  ELSE [@ EXCEPT !.pc = "insert", !.closed = targets]]
    /\ UNCHANGED <<now, nops, last, pre, entities, identifiers, edges, attributes, aliases, quarantine, cache>>

ResumeCloseAttribute(w) ==
    /\ txns[w].pc = "close_wait"
    /\ txns[w].op = "upsert_attribute"
    /\ txns[w].targets \cap Locked(w) = {}
    /\ txns' = [txns EXCEPT ![w] =
                  [@ EXCEPT !.pc = "insert", !.closed = txns[w].targets \cap attributes]]
    /\ UNCHANGED <<now, nops, last, pre, entities, identifiers, edges, attributes, aliases, quarantine, cache>>

ConcurrentAttributeRow(args) ==
    AttributeRow(args.syn_id, args.key, args.datatype, args.value, args.source,
                 args.confidence, args.valid_from, args.observed_at)

WaitsForAttribute(w, row) ==
    \/ AttributeKeyTaken(txns[Other(w)].written, row)
    \/ AttributeOpenTaken(txns[Other(w)].written, row)
    \/ AttributeOpenTaken(Locked(w), row)

\* INSERT INTO attributes.
InsertAttributeStep(w) ==
    LET args == txns[w].args
        row == ConcurrentAttributeRow(args)
        result == InsertAttributeChecked(Own(w, attributes), row)
    IN
    /\ txns[w].pc = "insert"
    /\ txns[w].op = "upsert_attribute"
    /\ ~WaitsForAttribute(w, row)
    /\ IF result = "ok"
       THEN /\ txns' = [txns EXCEPT ![w] = [@ EXCEPT !.pc = "commit", !.written = {row}]]
            /\ UNCHANGED <<nops, last, pre>>
       ELSE /\ Leave(w, result)
            /\ Called("upsert_attribute", args, result, attributes)
    /\ UNCHANGED <<now, entities, identifiers, edges, attributes, aliases, quarantine, cache>>

\* conn.commit() in the handler, which then returns the method's pair.
CommitAttribute(w) ==
    /\ txns[w].pc = "commit"
    /\ txns[w].op = "upsert_attribute"
    /\ attributes' = Own(w, attributes)
    /\ Leave(w, ReturnsAfterInsert(w))
    /\ Called("upsert_attribute", txns[w].args, ReturnsAfterInsert(w), attributes)
    /\ UNCHANGED <<now, entities, identifiers, edges, aliases, quarantine, cache>>

\* The wall clock advances between the steps of the two requests.
MaxConcurrentTime == 2

Advance ==
    /\ now < MaxConcurrentTime
    /\ now' = now + 1
    /\ UNCHANGED <<txns, nops, last, pre, entities, identifiers, edges, attributes, aliases, quarantine, cache>>

\* The key holds no open row, or the open row both requests find.
InitConcurrentWrites ==
    /\ nops = 0
    /\ last = NoCall
    /\ pre = {}
    /\ entities = SeededEntities
    /\ identifiers = {}
    /\ \/ now = 0 /\ edges = {} /\ attributes = {}
       \/ now = 1 /\ edges = {OpenEdgeAtStart} /\ attributes = {OpenAttributeAtStart}
    /\ aliases = {}
    /\ quarantine = {}
    /\ cache = {}
    /\ txns = [w \in Writers |-> IdleTxn]

EdgeRequestBegins == \E w \in Writers : BeginAddEdge(w)
EdgeRequestSelects == \E w \in Writers : SelectEdge(w)
EdgeRequestCloses == \E w \in Writers : CloseEdge(w)
EdgeRequestResumes == \E w \in Writers : ResumeCloseEdge(w)
EdgeRequestInserts == \E w \in Writers : InsertEdgeStep(w)
EdgeRequestCommits == \E w \in Writers : CommitEdge(w)
AttributeRequestBegins == \E w \in Writers : BeginUpsertAttribute(w)
AttributeRequestSelects == \E w \in Writers : SelectAttribute(w)
AttributeRequestCloses == \E w \in Writers : CloseAttribute(w)
AttributeRequestResumes == \E w \in Writers : ResumeCloseAttribute(w)
AttributeRequestInserts == \E w \in Writers : InsertAttributeStep(w)
AttributeRequestCommits == \E w \in Writers : CommitAttribute(w)

NextConcurrentWrites ==
    \/ Advance
    \/ EdgeRequestBegins
    \/ EdgeRequestSelects
    \/ EdgeRequestCloses
    \/ EdgeRequestResumes
    \/ EdgeRequestInserts
    \/ EdgeRequestCommits
    \/ AttributeRequestBegins
    \/ AttributeRequestSelects
    \/ AttributeRequestCloses
    \/ AttributeRequestResumes
    \/ AttributeRequestInserts
    \/ AttributeRequestCommits

SpecConcurrentWrites == InitConcurrentWrites /\ [][NextConcurrentWrites]_vars

-----------------------------------------------------------------------------
(* The text of a syn_id.  Elsewhere an id is the pair <<prefix, ulid>>;     *)
(* here it is the string the functions of ulid_gen build and take apart,   *)
(* as a sequence of characters.                                            *)

ULID_LENGTH == 26

\* The alphabet of str(ULID()): Crockford's base 32, no I, L, O or U.
CrockfordAlphabet ==
    {"0", "1", "2", "3", "4", "5", "6", "7", "8", "9",
     "A", "B", "C", "D", "E", "F", "G", "H", "J", "K", "M", "N",
     "P", "Q", "R", "S", "T", "V", "W", "X", "Y", "Z"}

\* PREFIX_MAP with its prefixes as character sequences.
PrefixText(entity_type) ==
    <<SubSeq(PREFIX_MAP[entity_type], 1, 1), SubSeq(PREFIX_MAP[entity_type], 2, 2)>>

REVERSE_PREFIX_MAP(prefix) == {t \in EntityType : PrefixText(t) = prefix}

Fill(c, n) == [i \in 1..n |-> c]

\* generate_syn_id: f"{prefix}_{ulid_str}", or ValueError.
generate_syn_id_joined_by(sep, entity_type, ulid_str) ==
    IF entity_type \notin DOMAIN PREFIX_MAP
    THEN [raised |-> TRUE, syn_id |-> <<>>]
    ELSE [raised |-> FALSE, syn_id |-> PrefixText(entity_type) \o sep \o ulid_str]

generate_syn_id_dashed(entity_type, ulid_str) ==
    generate_syn_id_joined_by(<<"-">>, entity_type, ulid_str)

generate_syn_id_str(entity_type, ulid_str) ==
    generate_syn_id_joined_by(<<"_">>, entity_type, ulid_str)

\* syn_id.split('_', 1): the text before the first underscore and the text
\* after it.
FirstUnderscore(syn_id) ==
    CHOOSE i \in 1..Len(syn_id) :
        syn_id[i] = "_" /\ \A j \in 1..(i - 1) : syn_id[j] # "_"

HasUnderscore(syn_id) == \E i \in 1..Len(syn_id) : syn_id[i] = "_"

split_once(syn_id) ==
    <<SubSeq(syn_id, 1, FirstUnderscore(syn_id) - 1),
      SubSeq(syn_id, FirstUnderscore(syn_id) + 1, Len(syn_id))>>

ParseError == [raised |-> TRUE, entity_type |-> None, ulid_str |-> <<>>]

\* parse_syn_id: (entity_type, ulid_str), or ValueError.
parse_syn_id(syn_id) ==
    IF syn_id = <<>> \/ ~HasUnderscore(syn_id) THEN ParseError
    ELSE LET prefix == split_once(syn_id)[1]
             ulid_str == split_once(syn_id)[2]
         IN IF REVERSE_PREFIX_MAP(prefix) = {} THEN ParseError
            ELSE IF Len(ulid_str) # ULID_LENGTH THEN ParseError
            ELSE [raised |-> FALSE,
                  entity_type |-> CHOOSE t \in REVERSE_PREFIX_MAP(prefix) : TRUE,
                  ulid_str |-> ulid_str]

\* validate_syn_id: parse_syn_id under try/except ValueError.
validate_syn_id_str(syn_id) == ~parse_syn_id(syn_id).raised

\* Values of str(ULID()): 26 characters of the alphabet.
UlidTexts ==
    {[Fill(c, ULID_LENGTH) EXCEPT ![i] = d] :
        c \in {"0", "7"}, d \in {"0", "H", "Z"}, i \in {1, ULID_LENGTH}}

\* The types asked for: the ten of the closed set and three outside it.
TypeInputs == EntityType \cup {"BOND", "company", ""}

\* The strings parsed and validated: a prefix, a separator or none, and a
\* suffix of some length with one of its characters set.
PrefixInputs == {<<"C", "O">>, <<"F", "X">>, <<"X", "X">>, <<"c", "o">>, <<"C">>, <<>>}
SeparatorInputs == {<<"_">>, <<"-">>, <<>>}
SuffixLengths == {0, ULID_LENGTH - 1, ULID_LENGTH, ULID_LENGTH + 1}
SuffixCharInputs == {"0", "Z", "I", "L", "O", "U", "a", "_", " "}

SuffixInputs ==
    {<<>>} \cup
    {[Fill("0", n) EXCEPT ![i] = d] :
        n \in SuffixLengths \ {0}, d \in SuffixCharInputs, i \in {1, ULID_LENGTH - 1}}

SynIdTexts ==
    {p \o sep \o suffix :
        p \in PrefixInputs, sep \in SeparatorInputs, suffix \in SuffixInputs}

MaxSynIdOps == 1

CanCallSynId == nops < MaxSynIdOps

UnchangedStore ==
    UNCHANGED <<txns, now, entities, identifiers, edges, attributes, aliases, quarantine, cache>>

GenerateSynId ==
    /\ CanCallSynId
    /\ \E entity_type \in TypeInputs, ulid_str \in UlidTexts :
          Called("generate_syn_id", <<entity_type>>,
                 generate_syn_id_str(entity_type, ulid_str), {})
    /\ UnchangedStore

ParseSynId ==
    /\ CanCallSynId
    /\ \E syn_id \in SynIdTexts :
          Called("parse_syn_id", <<syn_id>>, parse_syn_id(syn_id), {})
    /\ UnchangedStore

ValidateSynId ==
    /\ CanCallSynId
    /\ \E syn_id \in SynIdTexts :
          Called("validate_syn_id", <<syn_id>>,
                 [raised |-> FALSE, value |-> validate_syn_id_str(syn_id)], {})
    /\ UnchangedStore

NextSynId ==
    \/ GenerateSynId
    \/ ParseSynId
    \/ ValidateSynId

SpecSynId == Init /\ [][NextSynId]_vars

-----------------------------------------------------------------------------
(* A write request of the service, statement by statement: the work inside *)
(* its connection block, whose rows no other connection sees before the    *)
(* commit; the commit, or the rollback when the block is left by an        *)
(* exception; the invalidations after the block; the response.  Reads of   *)
(* entities arrive in between, each on its own connection.  txns[1] is the *)
(* request in flight.                                                      *)

IdleRequest ==
    [pc |-> "idle", op |-> "none", args |-> <<>>, rows |-> {}, result |-> "none",
     pending |-> {}]

MaxCommitOps == 2

CanCallCommit == nops < MaxCommitOps

InitCommit ==
    /\ now = 0
    /\ nops = 0
    /\ last = NoCall
    /\ pre = {}
    /\ entities = SeededEntities
    /\ identifiers = {}
    /\ edges = {}
    /\ attributes = {}
    /\ aliases = {}
    /\ quarantine = {}
    /\ cache = {}
    /\ txns = <<IdleRequest>>

Succeeded(result) == result \in {"(True, False)", "(False, True)", "(False, False)", "ok"}

\* The request enters its connection block and runs its statements.
Enter(op, args, rows, result, ok, affected_ids) ==
    /\ CanCallCommit
    /\ txns[1].pc = "idle"
    /\ txns' = <<[pc |-> IF ok THEN "written" ELSE "failed", op |-> op, args |-> args,
                  rows |-> rows, result |-> result, pending |-> affected_ids]>>
    /\ UNCHANGED <<now, nops, last, pre, entities, identifiers, edges, attributes, aliases, quarantine, cache>>

\* POST /attributes up to conn.commit().
EnterUpsertAttribute ==
    \E a \in AttributeItems :
        LET out == upsert_attribute_item(attributes, a, FALSE)
        IN Enter("upsert_attribute", a, out.rows, out.result, Succeeded(out.result),
                 {a.syn_id})

\* The batches posted: one or two items, each a valid edge or a self-loop,
\* which fails the batch.
CommitBatches ==
    UNION {[1..n -> {BaseEdgeItem, [BaseEdgeItem EXCEPT !.dst = SynA]}] : n \in 1..2}

\* POST /edges/batch up to conn.commit() or conn.rollback().
EnterAddEdgesBatch ==
    \E items \in CommitBatches :
        LET st == run_batch("edges", items, 1, BatchStart(edges))
        IN \E response \in batch_responses(items, st) :
              Enter("add_edges_batch", items, st.rows, response, st.errors = <<>>,
                    {items[i].src : i \in DOMAIN items}
                        \cup {items[i].dst : i \in DOMAIN items})

\* POST /identifiers up to conn.commit(); the handler invalidates nothing.
EnterAddIdentifier ==
    \E syn_id \in {SynA, SynB} :
        LET args == [syn_id |-> syn_id, scheme |-> "TICKER", value |-> <<"X">>,
                     valid_from |-> now]
            row == IdentifierRow(args)
            result == IF \E existing \in OpenIdentifiers(args.scheme, row.value) :
                             IdentifierCollision(existing, syn_id)
                      THEN "ValueError:collision"
                      ELSE InsertIdentifierResult(identifiers, row)
        IN Enter("add_identifier", args, InsertIdentifier(identifiers, row), result,
                 Succeeded(result), {})

\* conn.commit(): the rows of the block become the rows of the table.
CommitStep ==
    /\ txns[1].pc = "written"
    /\ txns' = <<[txns[1] EXCEPT !.pc = "committed"]>>
    /\ attributes' = IF txns[1].op = "upsert_attribute" THEN txns[1].rows ELSE attributes
    /\ edges' = IF txns[1].op = "add_edges_batch" THEN txns[1].rows ELSE edges
    /\ identifiers' = IF txns[1].op = "add_identifier" THEN txns[1].rows ELSE identifiers
    /\ UNCHANGED <<now, nops, last, pre, entities, aliases, quarantine, cache>>

\* The block is left by an exception: the connection rolls back.
RollbackStep ==
    /\ txns[1].pc = "failed"
    /\ txns' = <<[txns[1] EXCEPT !.pc = "rolled_back", !.rows = {}]>>
    /\ UNCHANGED <<now, nops, last, pre, entities, identifiers, edges, attributes, aliases, quarantine, cache>>

\* Where the handler is when it invalidates: past the connection block.
InvalidationDueOnceWritten(t) == t.pc \in {"written", "failed", "committed"}

InvalidationDue(t) == t.pc = "committed"

\* cache.invalidate_pattern for one of the affected ids.
InvalidateStep ==
    /\ InvalidationDue(txns[1])
    /\ \E syn_id \in txns[1].pending :
          /\ cache' = invalidate_pattern(cache, syn_id)
          /\ txns' = <<[txns[1] EXCEPT !.pending = @ \ {syn_id}]>>
    /\ UNCHANGED <<now, nops, last, pre, entities, identifiers, edges, attributes, aliases, quarantine>>

\* The response, or the HTTPException.
ReturnStep ==
    /\ \/ txns[1].pc = "committed" /\ txns[1].pending = {}
       \/ txns[1].pc = "rolled_back"
    /\ Called(txns[1].op, txns[1].args, txns[1].result,
              IF txns[1].op = "upsert_attribute" THEN attributes
              ELSE IF txns[1].op = "add_edges_batch" THEN edges ELSE identifiers)
    /\ txns' = <<IdleRequest>>
    /\ UNCHANGED <<now, entities, identifiers, edges, attributes, aliases, quarantine, cache>>

\* GET /entities/{syn_id} on its own connection.
ReadEntity ==
    /\ CanCallCommit
    /\ \E syn_id \in {SynA, SynB} : api_get_entity(syn_id, TRUE, FALSE)

NextCommit ==
    \/ EnterUpsertAttribute
    \/ EnterAddEdgesBatch
    \/ EnterAddIdentifier
    \/ CommitStep
    \/ RollbackStep
    \/ InvalidateStep
    \/ ReturnStep
    \/ ReadEntity

SpecCommit == InitCommit /\ [][NextCommit]_vars

-----------------------------------------------------------------------------
(* The time to live EntityCache.set gives an entry, in seconds.            *)

\* ONTOLOGY_CACHE_TTL when the environment does not set it.
DEFAULT_TTL == 3600

\* The upper argument of the jitter's random.randint.
JITTER_SECONDS == 120

\* random.randint(a, b): an integer N with a <= N <= b.
randint(a, b) == a..b

\* The values of ttl_with_jitter for a ttl argument (NULL for None).
ttl_with_jitter(ttl) ==
    {(IF ttl = NULL THEN DEFAULT_TTL ELSE ttl) + jitter : jitter \in randint(0, JITTER_SECONDS)}

TtlInputs == {NULL, 0, 60}

MaxTtlOps == 1

SetWithTtl ==
    /\ nops < MaxTtlOps
    /\ \E ttl \in TtlInputs : \E seconds \in ttl_with_jitter(ttl) :
          Called("EntityCache.set", [ttl |-> ttl], seconds, {})
    /\ UnchangedStore

NextTtl == SetWithTtl

SpecTtl == Init /\ [][NextTtl]_vars

-----------------------------------------------------------------------------
(* The ticker test of the resolver, on texts of up to seven characters,   *)
(* over a registry whose companies hold open tickers of one, five and     *)
(* seven characters.                                                       *)

\* K..K, K..K.K.. and ..K.., and each of these with a first letter in lower
\* case.
TickerShapes ==
    {Fill("K", n) : n \in 1..7}
        \cup {Fill("K", n) \o <<".">> \o Fill("K", k) : n \in 0..6, k \in 0..2}

TickerTexts ==
    TickerShapes \cup {[t EXCEPT ![1] = "k"] : t \in {u \in TickerShapes : u[1] = "K"}}

\* The same between blanks.
PaddedTickerTexts == {<<" ">> \o t \o <<" ">> : t \in TickerShapes}

TickerIdentifiers ==
    {[syn_id |-> SynA, scheme |-> "TICKER", value |-> <<"K">>,
      valid_from |-> 0, valid_to |-> NULL],
     [syn_id |-> SynA, scheme |-> "TICKER", value |-> Fill("K", 5),
      valid_from |-> 0, valid_to |-> NULL],
     [syn_id |-> SynB, scheme |-> "TICKER", value |-> Fill("K", 3) \o <<".", "K">>,
      valid_from |-> 0, valid_to |-> NULL],
     [syn_id |-> SynB, scheme |-> "TICKER", value |-> Fill("K", 5) \o <<".", "K">>,
      valid_from |-> 0, valid_to |-> NULL]}

InitTicker ==
    /\ now = 0
    /\ nops = 0
    /\ last = NoCall
    /\ pre = {}
    /\ entities = LinkerEntities
    /\ identifiers = TickerIdentifiers
    /\ edges = {}
    /\ attributes = {}
    /\ aliases = {}
    /\ quarantine = {}
    /\ cache = {}
    /\ txns = NoTxns

MaxTickerOps == 1

CanCallTicker == nops < MaxTickerOps

IsTickerLike ==
    /\ CanCallTicker
    /\ \E text \in TickerTexts :
          Called("is_ticker_like", [text |-> text], is_ticker_like(text), {})
    /\ UnchangedStore

TickerResolve ==
    /\ CanCallTicker
    /\ \E text \in TickerTexts \cup PaddedTickerTexts : resolve_call(text, None)

NextTicker ==
    \/ IsTickerLike
    \/ TickerResolve

SpecTicker == InitTicker /\ [][NextTicker]_vars

-----------------------------------------------------------------------------
(* The registry with entities of two types: every operation that writes    *)
(* or reads the entity table or hangs rows on an entity.                   *)

MaxEntityOps == 3

CanCallEntities == nops < MaxEntityOps

TypedEntityTypes == {"COMPANY", "SECURITY", "BOND"}
TypedEntityNames == EntityNames \cup {<<>>, <<"A", " ">>}
TypedStatusInputs == Statuses \cup {"INVALID", "active"}

CreateTypedEntity ==
    /\ CanCallEntities
    /\ \E t \in TypedEntityTypes, n \in TypedEntityNames, s \in TypedStatusInputs :
          create_entity(t, n, s)

EntitiesAddIdentifier ==
    /\ CanCallEntities
    /\ \E syn_id \in MintableIds : add_identifier(syn_id, "TICKER", <<"X">>, NULL)

EntitiesAddAlias ==
    /\ CanCallEntities
    /\ \E syn_id \in MintableIds : add_alias(syn_id, <<"x">>, None, None, 1000)

NextEntities ==
    \/ CreateTypedEntity
    \/ EntitiesAddIdentifier
    \/ EntitiesAddAlias

SpecEntities == Init /\ [][NextEntities]_vars

-----------------------------------------------------------------------------
(* Quarantine management: the rows resolve_or_quarantine has added are     *)
(* listed, and bound by hand to an entity.                                 *)

\* UPDATE entity_quarantine ... WHERE id = .. AND resolved_syn_id IS NULL.
BindTargetsById(rows, quarantine_id) == {r \in rows : r.id = quarantine_id}

BindTargets(rows, quarantine_id) ==
    {r \in rows : r.id = quarantine_id /\ r.resolved_syn_id = NullSynId}

Bound(r, syn_id, resolved_by) ==
    [r EXCEPT !.resolved_syn_id = syn_id, !.resolved_at = now,
              !.resolved_by = resolved_by]

resolve_quarantine_item(quarantine_id, syn_id, resolved_by) ==
    LET args == [quarantine_id |-> quarantine_id, syn_id |-> syn_id,
                 resolved_by |-> resolved_by]
        targets == BindTargets(quarantine, quarantine_id)
    IN
    /\ UNCHANGED <<txns, now, aliases, cache, entities, identifiers, edges, attributes>>
    /\ IF ~validate_syn_id(syn_id)
       THEN /\ UNCHANGED quarantine
            /\ Called("resolve_quarantine_item", args, "ValueError:syn_id", quarantine)
       ELSE /\ quarantine' = (quarantine \ targets)
                                \cup {Bound(r, syn_id, resolved_by) : r \in targets}
            /\ Called("resolve_quarantine_item", args,
                      IF targets # {} THEN "True" ELSE "False", quarantine)

\* get_quarantine_items: the rows of the listing and their count (the page
\* holds them all: the limit is at least 1 and the model's table is shorter
\* than any page the handler asks for).  The unresolved listing selects the
\* columns up to ingested_at.
UnresolvedItem(r) ==
    [id |-> r.id, raw_identifier |-> r.raw_identifier, scheme |-> r.scheme,
     context |-> r.context, reason |-> r.reason, ingested_at |-> r.ingested_at]

get_quarantine_items(resolved) ==
    IF resolved
    THEN LET items == {r \in quarantine : r.resolved_syn_id # NullSynId}
         IN [items |-> items, total |-> Cardinality(items)]
    ELSE LET rows == {r \in quarantine : r.resolved_syn_id = NullSynId}
         IN [items |-> {UnresolvedItem(r) : r \in rows}, total |-> Cardinality(rows)]

get_quarantine_items_call(resolved) ==
    /\ UNCHANGED <<txns, now, aliases, quarantine, cache, entities, identifiers, edges, attributes>>
    /\ Called("get_quarantine_items", [resolved |-> resolved],
              get_quarantine_items(resolved), quarantine)

MaxQuarantineOps == 4

CanCallQuarantine == nops < MaxQuarantineOps

\* Texts without a candidate in the registry of the two companies.
QuarantineTexts == {<<"y">>, <<"K">>}

QuarantineIds == {1, 2}

ResolvedBy == {"ana", "ben"}

Quarantine ==
    /\ CanCallQuarantine
    /\ \E text \in QuarantineTexts : resolve_or_quarantine(text, NoContext, None)

ResolveQuarantineItem ==
    /\ CanCallQuarantine
    /\ \E quarantine_id \in QuarantineIds, syn_id \in SynIds \cup {BadSynId},
          resolved_by \in ResolvedBy :
          resolve_quarantine_item(quarantine_id, syn_id, resolved_by)

GetQuarantineItems ==
    /\ CanCallQuarantine
    /\ \E resolved \in BOOLEAN : get_quarantine_items_call(resolved)

NextQuarantine ==
    \/ Tick
    \/ Quarantine
    \/ ResolveQuarantineItem
    \/ GetQuarantineItems

SpecQuarantine == InitLinker /\ [][NextQuarantine]_vars

-----------------------------------------------------------------------------
(* The service with a cache whose server may fail.  A command sent to      *)
(* Redis goes through, or raises RedisError without having taken effect,   *)
(* or raises after it has taken effect (the reply was lost).  The methods  *)
(* of EntityCache tell what they return and whether they raise.            *)

Faults == {"none", "lost_request", "lost_reply"}

\* EntityCache.get: the entry, or None on a miss and on an error.
EntityCache_get_unguarded(entries, key, fault) ==
    [raised |-> fault # "none",
     value |-> IF fault # "none" THEN {} ELSE cache_get(entries, key)]

EntityCache_get(entries, key, fault) ==
    [raised |-> FALSE,
     value |-> IF fault # "none" THEN {} ELSE cache_get(entries, key)]

\* EntityCache.set: SETEX, False on an error.
EntityCache_set(entries, key, response, fault) ==
    [raised |-> FALSE,
     entries |-> IF fault = "lost_request" THEN entries
                 ELSE cache_set(entries, key, response)]

\* EntityCache.invalidate_pattern: KEYS then DEL, 0 on an error.
EntityCache_invalidate_pattern(entries, syn_id, fault) ==
    [raised |-> FALSE,
     entries |-> IF fault = "lost_request" THEN entries
                 ELSE invalidate_pattern(entries, syn_id)]

\* The two invalidations of a write handler, one after the other; an
\* exception of the first leaves the second undone.
InvalidateEnds(entries, first, second, faults) ==
    LET one == EntityCache_invalidate_pattern(entries, first, faults[1])
        two == EntityCache_invalidate_pattern(one.entries, second, faults[2])
    IN IF one.raised THEN one
       ELSE two

\* The answer of a handler out of which an exception of the cache came.
ServerError == [status |-> 500]

\* GET /entities/{syn_id} with a cache that may fail.  cache.get is called
\* before the handler's try block, cache.set inside it.
api_get_entity_degraded(syn_id, include_identifiers, include_aliases, get_fault, set_fault) ==
    LET args == [syn_id |-> syn_id, include_identifiers |-> include_identifiers,
                 include_aliases |-> include_aliases, get_fault |-> get_fault,
                 set_fault |-> set_fault]
        key == cache_key(syn_id, include_identifiers, include_aliases)
        got == EntityCache_get(cache, key, get_fault)
        entity == get_entity(syn_id)
    IN
    /\ UNCHANGED <<txns, now, aliases, quarantine, entities, identifiers, edges, attributes>>
    /\ IF ~validate_syn_id(syn_id)
       THEN /\ Called("get_entity", args, [status |-> 400], cache)
            /\ UNCHANGED cache
       ELSE IF got.raised
       THEN /\ Called("get_entity", args, ServerError, cache)
            /\ UNCHANGED cache
       ELSE IF got.value # {}
       THEN /\ \E c \in got.value :
                Called("get_entity", args, [status |-> 200, body |-> c.data], cache)
            /\ UNCHANGED cache
       ELSE IF entity = {}
       THEN /\ Called("get_entity", args, [status |-> 404], cache)
            /\ UNCHANGED cache
       ELSE \E e \in entity :
              LET response == entity_response(e, include_identifiers, include_aliases)
                  stored == EntityCache_set(cache, key, response, set_fault)
              IN /\ cache' = stored.entries
                 /\ Called("get_entity", args,
                           IF stored.raised THEN ServerError
                           ELSE [status |-> 200, body |-> response], cache)

\* POST /edges with a cache that may fail.
api_add_edge_degraded(a, faults) ==
    LET out == add_edge_item(edges, a, FALSE)
        ok == out.result \in {"(True, False)", "(False, True)", "(False, False)"}
        invalidated == InvalidateEnds(cache, a.src, a.dst, faults)
    IN /\ UNCHANGED <<txns, now, aliases, quarantine, entities, identifiers, attributes>>
       /\ edges' = IF ok THEN out.rows ELSE edges
       /\ cache' = IF ok THEN invalidated.entries ELSE cache
       /\ Called("add_edge", [item |-> a, faults |-> faults],
                 IF ok /\ invalidated.raised THEN "Exception:cache" ELSE out.result,
                 edges)

\* DELETE /edges with a cache that may fail.
api_delete_edge_degraded(src, dst, rel_type, faults) ==
    LET args == [src |-> src, dst |-> dst, rel_type |-> rel_type, faults |-> faults]
        valid == validate_syn_id(src) /\ validate_syn_id(dst)
        deleted == valid /\ EdgeDeleted(OpenEdges(edges, src, dst, rel_type))
        invalidated == InvalidateEnds(cache, src, dst, faults)
    IN /\ UNCHANGED <<txns, now, aliases, quarantine, entities, identifiers, attributes>>
       /\ edges' = IF deleted THEN CloseEdges(edges, src, dst, rel_type, now) ELSE edges
       /\ cache' = IF deleted THEN invalidated.entries ELSE cache
       /\ Called("delete_edge", args,
                 IF deleted /\ invalidated.raised THEN "Exception:cache"
                 ELSE IF deleted THEN "True" ELSE "False", edges)

\* POST /attributes with a cache that may fail.
api_upsert_attribute_degraded(a, fault) ==
    LET out == upsert_attribute_item(attributes, a, FALSE)
        ok == out.result \in {"(True, False)", "(False, True)", "(False, False)"}
        invalidated == EntityCache_invalidate_pattern(cache, a.syn_id, fault)
    IN /\ UNCHANGED <<txns, now, aliases, quarantine, entities, identifiers, edges>>
       /\ attributes' = IF ok THEN out.rows ELSE attributes
       /\ cache' = IF ok THEN invalidated.entries ELSE cache
       /\ Called("upsert_attribute", [item |-> a, faults |-> <<fault>>],
                 IF ok /\ invalidated.raised THEN "Exception:cache" ELSE out.result,
                 attributes)

MaxDegradedOps == 3

CanCallDegraded == nops < MaxDegradedOps

DegradedGetEntity ==
    /\ CanCallDegraded
    /\ \E syn_id \in {SynA, SynC}, include_identifiers \in BOOLEAN,
          get_fault \in Faults, set_fault \in Faults :
          api_get_entity_degraded(syn_id, include_identifiers, FALSE, get_fault, set_fault)

DegradedAddIdentifier ==
    /\ CanCallDegraded
    /\ api_add_identifier(SynA, "TICKER", <<"X">>, NULL)

DegradedAddEdge ==
    /\ CanCallDegraded
    /\ \E a \in {BaseEdgeItem, [BaseEdgeItem EXCEPT !.source = "openfigi"]},
          faults \in Faults \X Faults :
          api_add_edge_degraded(a, faults)

DegradedDeleteEdge ==
    /\ CanCallDegraded
    /\ \E faults \in Faults \X Faults :
          api_delete_edge_degraded(SynA, SynB, "LISTED_ON", faults)

DegradedUpsertAttribute ==
    /\ CanCallDegraded
    /\ \E a \in {BaseAttributeItem, [BaseAttributeItem EXCEPT !.syn_id = SynC]},
          fault \in Faults :
          api_upsert_attribute_degraded(a, fault)

NextDegraded ==
    \/ DegradedGetEntity
    \/ DegradedAddIdentifier
    \/ DegradedAddEdge
    \/ DegradedDeleteEdge
    \/ DegradedUpsertAttribute

SpecDegraded == InitScd2 /\ [][NextDegraded]_vars

-----------------------------------------------------------------------------
(* Properties.  `last` is the most recent call and `pre` the rows of its   *)
(* table when it was made, so a state after a call shows the call's        *)
(* arguments, its outcome, and the table before and after it.              *)

\* The results of a write that returned its (created, changed) pair.
Returned == {"(True, False)", "(False, True)", "(False, False)"}

OpenRows(rows) == {r \in rows : r.valid_to = NULL}
ClosedRows(rows) == {r \in rows : r.valid_to # NULL}

\* The versions of the logical key of a call with arguments a.
EdgeKeyRows(rows, a) ==
    {r \in rows : r.src = a.src /\ r.dst = a.dst /\ r.rel_type = a.rel_type}
AttributeKeyRows(rows, a) ==
    {r \in rows : r.syn_id = a.syn_id /\ r.key = a.key}

\* C1: after any sequence of create_entity and add_identifier calls, for
\* every (scheme, value) at most one identifier row has valid_to = null.
C1_IdentifierOpenUnique ==
    \A r1, r2 \in OpenRows(identifiers) :
        (r1.scheme = r2.scheme /\ r1.value = r2.value) => r1 = r2

\* The owner of an open (scheme, value) added it again with another
\* valid_from, and the store refused the second open row.
C1_Witness ==
    /\ last.op = "add_identifier"
    /\ last.result = "psycopg.Error:unique"
    /\ \E r \in OpenRows(pre) :
        /\ r.syn_id = last.args.syn_id
        /\ r.scheme = last.args.scheme
        /\ r.value = Strip(last.args.value)
        /\ r \in identifiers

\* C2: after any sequence of add_edge and delete_edge calls, for every
\* (src, dst, rel_type) at most one edge row has valid_to = null.
C2_EdgeOpenUnique ==
    \A r1, r2 \in OpenRows(edges) :
        (r1.src = r2.src /\ r1.dst = r2.dst /\ r1.rel_type = r2.rel_type)
            => r1 = r2

\* An add_edge replaced the open version of a key: the key has a closed and
\* an open version.
C2_Witness ==
    /\ last.op = "add_edge"
    /\ last.result = "(False, True)"
    /\ OpenRows(EdgeKeyRows(pre, last.args)) # {}
    /\ ClosedRows(EdgeKeyRows(edges, last.args)) # {}
    /\ OpenRows(EdgeKeyRows(edges, last.args)) # {}

\* C3: after any sequence of upsert_attribute calls, for every (syn_id, key)
\* at most one attribute row has valid_to = null.
C3_AttributeOpenUnique ==
    \A r1, r2 \in OpenRows(attributes) :
        (r1.syn_id = r2.syn_id /\ r1.key = r2.key) => r1 = r2

\* An upsert_attribute replaced the open version of a key.
C3_Witness ==
    /\ last.op = "upsert_attribute"
    /\ last.result = "(False, True)"
    /\ OpenRows(AttributeKeyRows(pre, last.args)) # {}
    /\ ClosedRows(AttributeKeyRows(attributes, last.args)) # {}
    /\ OpenRows(AttributeKeyRows(attributes, last.args)) # {}

\* The open rows of the (scheme, value) of the last add_identifier that
\* another id owned when the call was made.
C4_OtherOwners ==
    {r \in OpenRows(pre) :
        /\ r.scheme = last.args.scheme
        /\ r.value = Strip(last.args.value)
        /\ r.syn_id # last.args.syn_id}

\* The last call was an add_identifier with a well-formed id and a non-blank
\* value, for a (scheme, value) another id held open.
C4_OwnedByAnother ==
    /\ last.op = "add_identifier"
    /\ validate_syn_id(last.args.syn_id)
    /\ Strip(last.args.value) # <<>>
    /\ C4_OtherOwners # {}

\* C4: add_identifier (with a well-formed id and a non-blank value) fails
\* with the collision error whenever an open row of the same (scheme, value)
\* is owned by a different syn_id; the failed call inserts no row, and
\* resolve_identifier(scheme, value), at any later instant, returns no other
\* entity than the original owner, and returns it from the owner row's
\* valid_from on.
C4_IdentifierCollision ==
    C4_OwnedByAnother =>
        /\ last.result = "ValueError:collision"
        /\ identifiers = pre
        /\ \A owner \in C4_OtherOwners :
            LET found == resolve_identifier(last.args.scheme, last.args.value, now)
            IN /\ \A x \in found : x.syn_id = owner.syn_id
               /\ owner.valid_from <= now => found # {}

\* A second registered entity asked for a (scheme, value) the first one
\* holds, and resolving it finds the first one.
C4_Witness ==
    /\ C4_OwnedByAnother
    /\ EntityExists(last.args.syn_id)
    /\ last.result = "ValueError:collision"
    /\ resolve_identifier(last.args.scheme, last.args.value, now) # {}

\* The significant change of C5: the open row e against the arguments a.
C5_Significant(e, a) ==
    \/ e.attrs # a.attrs
    \/ Abs(e.confidence - a.confidence) > Tolerance
    \/ e.source # a.source
    \/ e.evidence # a.evidence

C6_IdenticalAddEdgeIsNoop ==
    [][(/\ nops' = nops + 1
        /\ last.op = "add_edge"
        /\ last.result \in Returned
        /\ last'.op = "add_edge"
        /\ last'.args = last.args
        /\ last'.result \in Returned)
       => (last'.result = "(False, False)" /\ edges' = edges)]_vars

\* A write replaced the open version of a key: one more closed row, one open
\* row for the key, the previous open row closed at the new row's valid_from.
C7_Replaced(before, after, key_before, key_after) ==
    \E old \in OpenRows(key_before), new \in OpenRows(key_after) :
        /\ new \notin before
        /\ after = (before \ {old})
                     \cup {[old EXCEPT !.valid_to = new.valid_from], new}
        /\ Cardinality(ClosedRows(after)) = Cardinality(ClosedRows(before)) + 1
        /\ OpenRows(key_after) = {new}

\* C7: every add_edge or upsert_attribute call that returns (false, true)
\* completes with exactly one more closed row and exactly one open row for
\* its key, the previous open row closed with valid_to equal to the new
\* row's valid_from; every call that returns (false, false) leaves every row
\* of the table unchanged.
C7_MeaningfulMutation ==
    /\ last.op = "add_edge" =>
        /\ last.result = "(False, True)" =>
            C7_Replaced(pre, edges, EdgeKeyRows(pre, last.args),
                        EdgeKeyRows(edges, last.args))
        /\ last.result = "(False, False)" => edges = pre
    /\ last.op = "upsert_attribute" =>
        /\ last.result = "(False, True)" =>
            C7_Replaced(pre, attributes, AttributeKeyRows(pre, last.args),
                        AttributeKeyRows(attributes, last.args))
        /\ last.result = "(False, False)" => attributes = pre

\* An add_edge with an explicit observed_at replaced the open version.
C7_Witness ==
    /\ last.op = "add_edge"
    /\ last.result = "(False, True)"
    /\ last.args.observed_at # NULL
    /\ \E r \in ClosedRows(edges) : r \notin pre

\* C8: after add_edge inserted an edge and a later add_edge significantly
\* changed it, get_edges(src, 'out', active_only=true) returns exactly one
\* row for the key, carrying the new values, and get_edges(src, 'out',
\* active_only=false) returns both versions, the closed and the open one.
C8_GetEdgesAfterChange ==
    (last.op = "add_edge" /\ last.result = "(False, True)") =>
        LET a == last.args
            active == EdgeKeyRows(get_edges(a.src, "out", None, TRUE, now), a)
            all == EdgeKeyRows(get_edges(a.src, "out", None, FALSE, now), a)
        IN /\ Cardinality(active) = 1
           /\ \A e \in active :
                /\ e.confidence = a.confidence
                /\ e.source = a.source
                /\ e.evidence = a.evidence
           /\ ClosedRows(all) # {}
           /\ OpenRows(all) # {}

\* A delete_edge on a key with an open version returned true, closed that
\* version (set its valid_to) and inserted no row.
C9_ClosesOpenVersion ==
    (last.op = "delete_edge" /\ OpenRows(EdgeKeyRows(pre, last.args)) # {}) =>
        /\ last.result = "True"
        /\ OpenRows(EdgeKeyRows(edges, last.args)) = {}
        /\ Cardinality(edges) = Cardinality(pre)
        /\ \A p \in pre :
            IF p \in OpenRows(EdgeKeyRows(pre, last.args))
            THEN \E r \in ClosedRows(edges) : r = [p EXCEPT !.valid_to = r.valid_to]
            ELSE p \in edges

\* The call made in this step is a delete_edge on the key of a delete_edge
\* that returned true, with no call in between.
C9_SecondDelete ==
    /\ nops' = nops + 1
    /\ last.op = "delete_edge"
    /\ last.result = "True"
    /\ last'.op = "delete_edge"
    /\ last'.args.src = last.args.src
    /\ last'.args.dst = last.args.dst
    /\ last'.args.rel_type = last.args.rel_type

\* C9: delete_edge on an open edge returns true and closes the open version
\* without inserting a row; a second delete_edge on the same key with no
\* add_edge in between returns false and changes no row.
C9_DeleteEdgeTwice ==
    /\ []C9_ClosesOpenVersion
    /\ [][C9_SecondDelete => (last'.result = "False" /\ edges' = edges)]_vars

\* A delete_edge found only closed versions of its key, which an earlier
\* delete_edge left, and returned false.
C9_Witness ==
    /\ last.op = "delete_edge"
    /\ last.result = "False"
    /\ EdgeKeyRows(edges, last.args) # {}
    /\ OpenRows(EdgeKeyRows(edges, last.args)) = {}
    /\ edges = pre

\* The shape of the values of a datatype.
ValueShape(datatype) ==
    CASE datatype = "STRING" -> "str"
      [] datatype = "NUMBER" -> "num"
      [] datatype = "JSON" -> "dict"

\* The open row e holds what the arguments a give: the value in the slot of
\* the datatype, the datatype, the source, and the confidence within 0.01.
C10_Same(e, a) ==
    /\ (CASE a.datatype = "STRING" -> e.value_string
          [] a.datatype = "NUMBER" -> e.value_number
          [] a.datatype = "JSON" -> e.value_json) = a.value
    /\ e.datatype = a.datatype
    /\ e.source = a.source
    /\ Abs(e.confidence - a.confidence) <= Tolerance

PopulatedSlots(r) ==
    {s \in {"value_string", "value_number", "value_json"} : r[s] # <<None>>}

\* The slot a datatype names.
SlotOf(datatype) ==
    CASE datatype = "STRING" -> "value_string"
      [] datatype = "NUMBER" -> "value_number"
      [] datatype = "JSON" -> "value_json"

\* C11: every attribute row written has exactly one of the three value
\* slots populated, the one named by the row's datatype; and an upsert whose
\* value is not of the shape of its datatype is rejected as an invalid
\* argument and writes nothing.
C11_ValueMatchesDatatype ==
    /\ \A r \in attributes : PopulatedSlots(r) = {SlotOf(r.datatype)}
    /\ (/\ last.op = "upsert_attribute"
        /\ validate_syn_id(last.args.syn_id)
        /\ Strip(last.args.key) # <<>>
        /\ last.args.datatype \in Datatypes
        /\ 0 <= last.args.confidence /\ last.args.confidence <= 1000
        /\ last.args.value[1] # ValueShape(last.args.datatype))
       => (last.result = "ValueError:value" /\ attributes = pre)

\* C12: when an entity that holds an open identifier (scheme, OLD) from T0
\* adds an identifier (scheme, NEW) of the same scheme with valid_from
\* T1 > T0, the OLD row is closed at T1: resolve_identifier(scheme, OLD, asof)
\* returns the entity for T0 <= asof < T1 and nothing for asof >= T1.
C12_NewIdentifierClosesOld ==
    last.op = "add_identifier" =>
        \A new \in identifiers \ pre, old \in OpenRows(pre) :
            (/\ old.syn_id = new.syn_id
             /\ old.scheme = new.scheme
             /\ old.value # new.value
             /\ old.valid_from < new.valid_from)
            => \A asof \in Time :
                LET found == resolve_identifier(old.scheme, old.value, asof)
                IN /\ (old.valid_from <= asof /\ asof < new.valid_from)
                        => {x.syn_id : x \in found} = {old.syn_id}
                   /\ asof >= new.valid_from => found = {}

\* The identifier rows of (scheme, value) whose interval
\* [valid_from, valid_to) contains asof.
Covering(scheme, value, asof) ==
    {r \in identifiers :
        /\ r.scheme = scheme
        /\ r.value = value
        /\ r.valid_from <= asof
        /\ (r.valid_to = NULL \/ asof < r.valid_to)}

\* What resolve_identifier returns for an identifier row: the row's owner and
\* interval, joined with the owner's entity.
Joined(r) ==
    {[syn_id |-> r.syn_id, valid_from |-> r.valid_from, valid_to |-> r.valid_to,
      canonical_name |-> e.canonical_name, type |-> e.type, status |-> e.status] :
        e \in {x \in entities : x.syn_id = r.syn_id}}

BatchCalled == last.op \in {"add_edges_batch", "upsert_attributes_batch"}

\* The table a batch request writes, and the kind of its items.
BatchTable == IF last.op = "add_edges_batch" THEN edges ELSE attributes
BatchKind == IF last.op = "add_edges_batch" THEN "edges" ELSE "attributes"

\* The positions of the items of the last batch that are invalid whatever
\* the store holds: an edge from an entity to itself, an attribute whose
\* value is not in the slot of its datatype.
InvalidItems ==
    {i \in 1..Len(last.args) :
        IF last.op = "add_edges_batch"
        THEN last.args[i].src = last.args[i].dst
        ELSE last.args[i][SlotOf(last.args[i].datatype)] = NoValue}

\* The items of the last batch at the positions the error list does not name.
RetryItems(errors) ==
    LET failed == {errors[k].index + 1 : k \in 1..Len(errors)}
        keep(item) == \E i \in 1..Len(last.args) : i \notin failed /\ last.args[i] = item
    IN SelectSeq(last.args, keep)

\* The failed batch was rolled back: no row of it is inserted or closed.
C14_RolledBack ==
    (BatchCalled /\ last.result.status # 200) => BatchTable = pre

\* C14: if any item of a batch of edges or attributes fails (for example an
\* edge with src = dst), the whole batch is rolled back, no row of it being
\* inserted or closed; the response lists an error for each failing index
\* together with a rolled-back indication; and a retry of the items that did
\* not fail succeeds.
C14_AtomicBatch ==
    BatchCalled =>
        /\ InvalidItems # {} => last.result.status # 200
        /\ last.result.status # 200 =>
            /\ BatchTable = pre
            /\ last.result.detail # <<>>
            /\ LET detail == last.result.detail[2]
               IN /\ detail.message = "Batch failed, transaction rolled back"
                  /\ \A i \in InvalidItems :
                        \E k \in 1..Len(detail.errors) : detail.errors[k].index = i - 1
                  /\ LET retry == RetryItems(detail.errors)
                     IN retry # <<>> =>
                          run_batch(BatchKind, retry, 1, BatchStart(BatchTable)).errors = <<>>

\* The outcomes of a write that raised, or that the service answers with an
\* error (delete_edge finding no open edge).
Failed(result) == result \notin Returned \cup {"True"}

\* C15: every public write commits on success and rolls back on any
\* failure: a write that fails at any step, including after the close step of
\* an update and before the insert of the new version, leaves the store in
\* its state before the request, no row closed and none inserted; a write
\* that reports an insert or an update has its rows in the store.
C15_UnitOfWork ==
    /\ (last.op \in {"add_edge", "delete_edge"} /\ Failed(last.result))
            => edges = pre
    /\ (last.op = "upsert_attribute" /\ Failed(last.result))
            => attributes = pre
    /\ (last.op = "add_edge" /\ last.result \in {"(True, False)", "(False, True)"})
            => OpenRows(EdgeKeyRows(edges, last.args)) \ pre # {}
    /\ (last.op = "upsert_attribute" /\ last.result \in {"(True, False)", "(False, True)"})
            => OpenRows(AttributeKeyRows(attributes, last.args)) \ pre # {}
    /\ (last.op = "delete_edge" /\ last.result = "True")
            => OpenRows(EdgeKeyRows(edges, last.args)) = {}

\* An add_edge closed the open version and then failed to insert the new
\* one (its valid_from is the open version's), and the version is still open.
C15_Witness ==
    /\ last.op = "add_edge"
    /\ last.result = "psycopg.Error:key"
    /\ OpenRows(EdgeKeyRows(pre, last.args)) # {}
    /\ OpenRows(EdgeKeyRows(edges, last.args)) = OpenRows(EdgeKeyRows(pre, last.args))

\* C16: once a view of an entity has been read (and cached) and add_alias
\* for the entity has committed, a later read of the entity with the aliases
\* view holds the new alias; in general a read returns the view the store
\* holds after the committed writes, never the view cached before them.
C16_ReadAfterWrite ==
    (last.op = "get_entity" /\ last.result.status = 200) =>
        /\ last.args.include_aliases =>
              \A a \in get_aliases(last.args.syn_id) :
                  \E x \in last.result.body.aliases : x.alias = a.alias
        /\ \A e \in get_entity(last.args.syn_id) :
              last.result.body =
                  entity_response(e, last.args.include_identifiers,
                                  last.args.include_aliases)

\* The ids a call touches, and whether the call committed a mutation.
Touched(call) ==
    CASE call.op \in {"add_identifier", "add_alias", "upsert_attribute"} ->
            {call.args.syn_id}
      [] call.op \in {"add_edge", "delete_edge"} -> {call.args.src, call.args.dst}
      [] call.op = "add_edges_batch" ->
            {call.args[i].src : i \in DOMAIN call.args}
                \cup {call.args[i].dst : i \in DOMAIN call.args}
      [] call.op = "upsert_attributes_batch" ->
            {call.args[i].syn_id : i \in DOMAIN call.args}
      [] OTHER -> {}

Mutated(call) ==
    CASE call.op = "add_identifier" -> call.result = "ok"
      [] call.op = "add_alias" -> call.result = None
      [] call.op \in {"add_edge", "upsert_attribute"} -> call.result \in Returned
      [] call.op = "delete_edge" -> call.result = "True"
      [] call.op \in {"add_edges_batch", "upsert_attributes_batch"} ->
            call.result.status = 200
      [] OTHER -> FALSE

\* C17: when a mutation that touches an id has succeeded, the cache holds no
\* entry of that id, whatever the view its key names.
C17_MutationInvalidates ==
    Mutated(last) => \A c \in cache : c.key[1] \notin Touched(last)

\* The candidates the cascade gives the last call of the resolver, after the
\* type filter.
Generated ==
    type_filtered(cascade(Strip(last.args.text)), last.args.entity_type_filter)

ReachesThreshold == \E c \in Generated : c.confidence >= CONFIDENCE_THRESHOLD

\* C18: resolve returns a best candidate exactly when the filtered candidates
\* are not empty and their top confidence is at least 0.95, and the best
\* candidate is one of them of confidence at least 0.95;
\* resolve_or_quarantine returns a syn_id under the same condition, and it is
\* the syn_id of such a candidate.
C18_ResolvedIffThreshold ==
    /\ last.op = "resolve" =>
          /\ (last.result.best # <<>>) <=> ReachesThreshold
          /\ last.result.best # <<>> =>
                /\ last.result.best[1] \in Generated
                /\ last.result.best[1].confidence >= CONFIDENCE_THRESHOLD
                /\ \A c \in Generated : c.confidence <= last.result.best[1].confidence
    /\ (last.op = "resolve_or_quarantine" /\ last.result.raised = "") =>
          /\ (last.result.syn_id # <<>>) <=> ReachesThreshold
          /\ last.result.syn_id # <<>> =>
                \E c \in Generated :
                    /\ c.syn_id = last.result.syn_id
                    /\ c.confidence >= CONFIDENCE_THRESHOLD

\* A resolve that returned a best candidate out of a list that also holds a
\* candidate below the threshold.
C18_Witness ==
    /\ last.op = "resolve"
    /\ last.result.best # <<>>
    /\ \E i \in DOMAIN last.result.all_candidates :
          last.result.all_candidates[i].confidence < CONFIDENCE_THRESHOLD

\* The stored aliases a candidate of the exact-alias stage was made from.
MatchedAliases(c) ==
    {a \in AliasRows : a.syn_id = c.syn_id /\ a.alias = c.matched_value}

\* C19: a candidate of the exact-alias stage has the confidence
\* min(alias.confidence, 0.95) of a stored alias it matched, whatever that
\* stored confidence in [0, 1] is, 0.0 included; so a best candidate matched
\* via an exact alias comes from an alias stored with confidence >= 0.95.
C19_ExactAliasConfidence ==
    last.op = "resolve" =>
        /\ \A i \in DOMAIN last.result.all_candidates :
              LET c == last.result.all_candidates[i]
              IN c.matched_via = "ALIAS" =>
                    \E a \in MatchedAliases(c) :
                        c.confidence = Min(a.confidence, 950)
        /\ (last.result.best # <<>> /\ last.result.best[1].matched_via = "ALIAS") =>
              \E a \in MatchedAliases(last.result.best[1]) : a.confidence >= 950

\* The elements of a list.
Elements(list) == {list[i] : i \in DOMAIN list}

\* C20: resolve_or_quarantine returns either a syn_id or a quarantine id,
\* never both and never neither; it adds a quarantine row exactly when no
\* candidate reaches the threshold; the row is the one whose id it returns,
\* it is unresolved, and when there are candidates its context holds the
\* whole candidate list.
C20_ResolveOrQuarantine ==
    last.op = "resolve_or_quarantine" =>
        /\ last.result.raised = ""
        /\ (last.result.syn_id # <<>>) # (last.result.quarantine_id # NULL)
        /\ (quarantine # pre) <=> ~ReachesThreshold
        /\ quarantine # pre =>
              /\ pre \subseteq quarantine
              /\ Cardinality(quarantine) = Cardinality(pre) + 1
              /\ LET row == CHOOSE r \in quarantine : r \notin pre
                 IN /\ row.id = last.result.quarantine_id
                    /\ \A r \in pre : r.id # row.id
                    /\ row.raw_identifier = last.args.text
                    /\ row.resolved_syn_id = NullSynId
                    /\ Generated # {} =>
                          /\ row.context # NoContext
                          /\ Elements(row.context[1].candidates)
                                \in deduplicated(Generated)

\* The candidates the four stages give for a text.
StageCandidates(text) ==
    (IF is_ticker_like(text) THEN find_ticker_candidates(text) ELSE {})
        \cup find_alias_candidates(text, TRUE)
        \cup find_canonical_name_candidates(text)
        \cup find_alias_candidates(text, FALSE)

\* The candidate is of an ACTIVE entity and, when it was matched via the
\* ticker, of an open TICKER identifier of that entity holding its value.
OfActiveEntity(c) ==
    /\ \E e \in entities : e.syn_id = c.syn_id /\ e.status = "ACTIVE"
    /\ c.matched_via = "TICKER" =>
          \E i \in identifiers :
              /\ i.syn_id = c.syn_id
              /\ i.scheme = "TICKER"
              /\ i.value = c.matched_value
              /\ i.valid_to = NULL

\* C21: every candidate of every stage of the resolver is of an entity that
\* is ACTIVE at the time of the query, a ticker candidate being of an open
\* TICKER identifier; so every candidate resolve lists and every syn_id
\* returned as resolved is of an ACTIVE entity.
C21_OnlyActiveEntities ==
    /\ \A text \in LinkerTexts : \A c \in StageCandidates(text) : OfActiveEntity(c)
    /\ last.op = "resolve" =>
          \A i \in DOMAIN last.result.all_candidates :
              OfActiveEntity(last.result.all_candidates[i])
    /\ (last.op = "resolve_or_quarantine" /\ last.result.syn_id # <<>>) =>
          \E e \in entities : e.syn_id = last.result.syn_id /\ e.status = "ACTIVE"

\* A resolve that gave candidates for a text that is also the alias or the
\* ticker of an entity that is not ACTIVE.
C21_Witness ==
    /\ last.op = "resolve"
    /\ last.result.best # <<>>
    /\ \E e \in entities :
          /\ e.status # "ACTIVE"
          /\ \/ \E a \in aliases :
                  /\ a.syn_id = e.syn_id
                  /\ Lower(a.alias) = normalize_text(last.args.text)
             \/ \E i \in identifiers :
                  /\ i.syn_id = e.syn_id
                  /\ Upper(i.value) = Upper(Strip(last.args.text))

\* The two writers have both left their handlers, having asked for the same
\* (scheme, value).
BothWritersFinished ==
    /\ \A w \in Writers : Finished(w)
    /\ txns[1].args.scheme = txns[2].args.scheme
    /\ Strip(txns[1].args.value) = Strip(txns[2].args.value)

OwnsOpenIdentifier(w) ==
    \E r \in OpenIdentifiers(txns[w].args.scheme, Strip(txns[w].args.value)) :
        r.syn_id = txns[w].args.syn_id

\* C22: when two concurrent writers add the same (scheme, value) for two
\* different entities, whatever the interleaving of their steps, at most one
\* of them ends with an open row for (scheme, value), and the other has failed
\* with the identifier collision error and has left no row in the table.
C22_ConcurrentIdentifierCollision ==
    BothWritersFinished =>
        /\ Cardinality(OpenIdentifiers(txns[1].args.scheme,
                                       Strip(txns[1].args.value))) <= 1
        /\ \A w \in Writers :
              ~OwnsOpenIdentifier(w) =>
                  /\ txns[w].result = "ValueError:collision"
                  /\ \A r \in identifiers : r.syn_id # txns[w].args.syn_id

\* The same with the loser's failure left open between the collision error
\* and the store's uniqueness error.
ConcurrentIdentifierLoserFails ==
    BothWritersFinished =>
        /\ Cardinality(OpenIdentifiers(txns[1].args.scheme,
                                       Strip(txns[1].args.value))) = 1
        /\ \A w \in Writers :
              ~OwnsOpenIdentifier(w) =>
                  /\ txns[w].result \in {"ValueError:collision", "psycopg.Error:unique"}
                  /\ \A r \in identifiers : r.syn_id # txns[w].args.syn_id

\* The store's uniqueness violations: of the open-version index, and of the
\* key of a version.
UniqueViolation == {"psycopg.Error:unique", "psycopg.Error:key"}

AtMostOneOpenPerKey ==
    /\ \A r1, r2 \in edges :
          /\ r1.valid_to = NULL /\ r2.valid_to = NULL
          /\ r1.src = r2.src /\ r1.dst = r2.dst /\ r1.rel_type = r2.rel_type
          => r1 = r2
    /\ \A r1, r2 \in attributes :
          /\ r1.valid_to = NULL /\ r2.valid_to = NULL
          /\ r1.syn_id = r2.syn_id /\ r1.key = r2.key
          => r1 = r2

TableOf(op) == IF op = "add_edge" THEN edges ELSE attributes

ConcurrentAttributeInsertLoses ==
    /\ \A w \in Writers :
          /\ Finished(w)
          /\ txns[w].op = "upsert_attribute"
          /\ txns[w].existing = {}
    /\ \E w \in Writers :
          /\ txns[w].result = "(True, False)"
          /\ txns[Other(w)].result = "psycopg.Error:unique"

\* A row of the table before a step is in the table after it: as it was, or,
\* if it was open, with its valid_to set and nothing else changed.
Kept(rows, after) ==
    \A r \in rows :
        \/ r \in after
        \/ /\ r.valid_to = NULL
           /\ \E c \in after : c.valid_to # NULL /\ [c EXCEPT !.valid_to = NULL] = r

\* C24: the full history is preserved.  No step of the registry, the edge
\* manager or the attribute manager removes an identifier, edge or attribute
\* row, and a row that is closed (valid_to set) is carried over with every
\* field, valid_to included, as it was.
C24_HistoryPreserved ==
    [][/\ Kept(identifiers, identifiers')
       /\ Kept(edges, edges')
       /\ Kept(attributes, attributes')]_vars

\* A delete_edge that closed the open version of an edge whose earlier
\* version was closed already: both closed versions are in the table.
C24_Witness ==
    /\ last.op = "delete_edge"
    /\ last.result = "True"
    /\ \E r \in pre : r.valid_to # NULL /\ r \in edges
    /\ \E r \in pre : r.valid_to = NULL /\ r \notin edges

\* The length of a syn_id: two letters, an underscore and the ULID.
SynIdLength == 2 + 1 + ULID_LENGTH

\* C25: for every entity type T of the closed set, generate_syn_id(T) returns
\* a string of 29 characters that starts with T's two-letter prefix and an
\* underscore, and parse_syn_id of it returns (T, s) with s of 26 characters;
\* for a type outside the closed set generate_syn_id raises.
C25_MintParses ==
    last.op = "generate_syn_id" =>
        LET entity_type == last.args[1]
            syn_id == last.result.syn_id
        IN IF entity_type \in EntityType
           THEN /\ ~last.result.raised
                /\ Len(syn_id) = SynIdLength
                /\ SubSeq(syn_id, 1, 2) = PrefixText(entity_type)
                /\ syn_id[3] = "_"
                /\ ~parse_syn_id(syn_id).raised
                /\ parse_syn_id(syn_id).entity_type = entity_type
                /\ Len(parse_syn_id(syn_id).ulid_str) = ULID_LENGTH
           ELSE last.result.raised

C25_Witness ==
    /\ last.op = "generate_syn_id"
    /\ last.args[1] = "FX"
    /\ ~last.result.raised
    /\ parse_syn_id(last.result.syn_id).entity_type = "FX"

\* The synthetic-ID format: a known two-letter prefix, an underscore, and 26
\* characters of the sortable-ID alphabet.
HasSynIdFormat(syn_id) ==
    /\ Len(syn_id) = SynIdLength
    /\ \E t \in EntityType : SubSeq(syn_id, 1, 2) = PrefixText(t)
    /\ syn_id[3] = "_"
    /\ \A i \in 4..SynIdLength : syn_id[i] \in CrockfordAlphabet

\* C26: validate_syn_id never raises, and it returns true exactly for the
\* strings of the synthetic-ID format: false for the empty string, for an
\* unknown prefix, for a suffix of another length, and for a suffix of 26
\* characters of which one is outside the alphabet.
C26_ValidateExact ==
    last.op = "validate_syn_id" =>
        /\ ~last.result.raised
        /\ last.result.value <=> HasSynIdFormat(last.args[1])

\* The same without the alphabet: validate_syn_id is true exactly for a known
\* prefix, an underscore, and 26 further characters.
ValidateChecksPrefixAndLength ==
    last.op = "validate_syn_id" =>
        /\ ~last.result.raised
        /\ last.result.value <=>
              /\ Len(last.args[1]) = SynIdLength
              /\ \E t \in EntityType : SubSeq(last.args[1], 1, 2) = PrefixText(t)
              /\ last.args[1][3] = "_"

\* C27: the type and the syn_id of an entity never change after its creation,
\* whatever operations follow, and the prefix of its syn_id is the prefix of
\* its stored type.  At every step: an entity of the registry before the step
\* is in the registry after it under the same syn_id with the same type and
\* no other; and every entity after the step carries the prefix of its type.
C27_TypeAndIdImmutable ==
    [][/\ \A e \in entities :
             {x.type : x \in {y \in entities' : y.syn_id = e.syn_id}} = {e.type}
       /\ \A e \in entities' : e.syn_id[1] = PREFIX_MAP[e.type]]_vars

\* A company and a security are in the registry, and an identifier has been
\* added to the security since.
C27_Witness ==
    /\ \E e \in entities : e.type = "COMPANY" /\ e.syn_id[1] = "CO"
    /\ \E e \in entities : e.type = "SECURITY" /\ e.syn_id = SynS
    /\ last.op = "add_identifier"
    /\ last.result = "ok"
    /\ last.args.syn_id = SynS

Blank(name) == \A i \in 1..Len(name) : name[i] = " "

Spaces(n) == [i \in 1..n |-> " "]

\* The name with the white space at its two ends taken off.
TrimmedOf(name, trimmed) ==
    /\ trimmed # <<>>
    /\ trimmed[1] # " "
    /\ trimmed[Len(trimmed)] # " "
    /\ \E i, j \in 0..Len(name) : name = Spaces(i) \o trimmed \o Spaces(j)

\* C28: create_entity rejects a canonical name that is empty or only white
\* space, and a status outside {ACTIVE, INACTIVE, MERGED}, with ValueError and
\* without creating an entity; when it succeeds, the stored name is the
\* trimmed, non-empty name, and get_entity of the returned syn_id gives the
\* new entity, of the type and the status that were passed.
C28_CreateEntityChecked ==
    last.op = "create_entity" =>
        LET entity_type == last.args[1]
            canonical_name == last.args[2]
            status == last.args[3]
        IN IF Blank(canonical_name) \/ status \notin {"ACTIVE", "INACTIVE", "MERGED"}
           THEN /\ entities = pre
                /\ last.result \in {"ValueError:name", "ValueError:status"}
           ELSE entity_type \in EntityType =>
                /\ Cardinality(get_entity(last.result)) = 1
                /\ \A e \in get_entity(last.result) :
                      /\ e.syn_id = last.result
                      /\ e.type = entity_type
                      /\ e.status = status
                      /\ TrimmedOf(canonical_name, e.canonical_name)
                      /\ e \notin pre
                      /\ entities = pre \cup {e}

\* A security was created as MERGED under a name with white space around it.
C28_Witness ==
    /\ last.op = "create_entity"
    /\ last.args = <<"SECURITY", <<" ", "A">>, "MERGED">>
    /\ last.result = SynS
    /\ \E e \in entities : e.syn_id = SynS /\ e.canonical_name = <<"A">>

\* C29: binding a quarantine row by hand sets resolved_syn_id, resolved_at
\* and resolved_by exactly when the row exists and is unresolved, and then
\* returns true; for a row that is resolved already, or that does not exist,
\* it returns false and the table is as before.  So a resolution, once set,
\* stays as it is under every later call; and the unresolved listing holds a
\* row exactly while its resolved_syn_id is null.
C29_BindOnlyUnresolved ==
    /\ last.op = "resolve_quarantine_item" /\ validate_syn_id(last.args.syn_id) =>
          IF \E r \in pre : r.id = last.args.quarantine_id /\ r.resolved_syn_id = NullSynId
          THEN /\ last.result = "True"
               /\ \E r \in pre, at \in 0..now :
                     /\ r.id = last.args.quarantine_id
                     /\ quarantine = (pre \ {r}) \cup
                           {[r EXCEPT !.resolved_syn_id = last.args.syn_id,
                                      !.resolved_at = at,
                                      !.resolved_by = last.args.resolved_by]}
          ELSE /\ last.result = "False"
               /\ quarantine = pre
    /\ \A r \in pre : r.resolved_syn_id # NullSynId => r \in quarantine
    /\ \A r \in quarantine :
          (\E item \in get_quarantine_items(FALSE).items : item.id = r.id)
              <=> r.resolved_syn_id = NullSynId
    /\ last.op = "get_quarantine_items" /\ ~last.args.resolved =>
          {item.id : item \in last.result.items}
              = {r.id : r \in {q \in quarantine : q.resolved_syn_id = NullSynId}}

\* A row was bound to one entity; binding it again, to the other entity,
\* has returned false, and the row is still bound to the first.
C29_Witness ==
    /\ last.op = "resolve_quarantine_item"
    /\ last.result = "False"
    /\ \E r \in quarantine :
          /\ r.id = last.args.quarantine_id
          /\ r.resolved_syn_id \in SynIds
          /\ r.resolved_syn_id # last.args.syn_id
          /\ r.resolved_by # last.args.resolved_by

\* What the store holds of an entity, as the read handler answers it.
ViewStatus(syn_id) == IF get_entity(syn_id) = {} THEN 404 ELSE 200

ViewOfStore(syn_id, include_identifiers, include_aliases) ==
    {entity_response(e, include_identifiers, include_aliases) : e \in get_entity(syn_id)}

\* C30: a failure of the cache never fails the operation.  A read whose
\* cache lookup raised is answered as a miss is: with the store's present
\* view (or 404), which is then cached if the cache takes it; a read whose
\* cache write raised still answers with the store's view; a write whose
\* invalidation raised has committed what it would have committed and
\* answers what it would have answered.
C30_CacheFailuresSwallowed ==
    /\ last.op = "get_entity" /\ validate_syn_id(last.args.syn_id) =>
          LET a == last.args
              key == cache_key(a.syn_id, a.include_identifiers, a.include_aliases)
              hit == a.get_fault = "none" /\ cache_get(pre, key) # {}
              view == ViewOfStore(a.syn_id, a.include_identifiers, a.include_aliases)
          IN IF hit
             THEN /\ last.result.status = 200
                  /\ \E c \in cache_get(pre, key) : last.result.body = c.data
                  /\ cache = pre
             ELSE /\ last.result.status = ViewStatus(a.syn_id)
                  /\ last.result.status = 200 =>
                        /\ last.result.body \in view
                        /\ cache = IF a.set_fault = "lost_request" THEN pre
                                   ELSE cache_set(pre, key, last.result.body)
    /\ last.op = "add_edge" =>
          LET out == add_edge_item(pre, last.args.item, FALSE)
          IN /\ last.result = out.result
             /\ edges = IF out.result \in Returned THEN out.rows ELSE pre
    /\ last.op = "delete_edge" =>
          LET a == last.args
              open == OpenEdges(pre, a.src, a.dst, a.rel_type)
          IN /\ last.result = IF open # {} THEN "True" ELSE "False"
             /\ edges = CloseEdges(pre, a.src, a.dst, a.rel_type, now)
    /\ last.op = "upsert_attribute" =>
          LET out == upsert_attribute_item(pre, last.args.item, FALSE)
          IN /\ last.result = out.result
             /\ attributes = IF out.result \in Returned THEN out.rows ELSE pre

\* A view was cached, an identifier was added since, and the next read of
\* the view met a cache that raised: it is answered from the store, with the
\* identifier the cached copy lacks.
C30_Witness ==
    /\ last.op = "get_entity"
    /\ last.args.get_fault # "none"
    /\ last.result.status = 200
    /\ last.result.body.identifiers # {}
    /\ \E c \in pre :
          /\ c.key = cache_key(last.args.syn_id, last.args.include_identifiers,
                               last.args.include_aliases)
          /\ c.data # last.result.body

\* An edge was added and committed while both invalidations raised.
WriteWithFailedInvalidation ==
    /\ last.op = "add_edge"
    /\ last.args.faults = <<"lost_request", "lost_request">>
    /\ last.result = "(True, False)"
    /\ edges # pre

\* The candidates of the stages of the last resolve, in the order ticker,
\* exact alias, canonical name, fuzzy alias.
Stages ==
    LET text == Strip(last.args.text)
    IN <<IF is_ticker_like(text) THEN find_ticker_candidates(text) ELSE {},
         find_alias_candidates(text, TRUE),
         find_canonical_name_candidates(text),
         find_alias_candidates(text, FALSE)>>

\* The candidates of the first stage that gave any.
FirstYield ==
    IF \E i \in 1..4 : Stages[i] # {}
    THEN Stages[CHOOSE i \in 1..4 : Stages[i] # {} /\ \A j \in 1..(i - 1) : Stages[j] = {}]
    ELSE {}

PassesFilter(c) ==
    \/ last.args.entity_type_filter = None
    \/ c.entity_type = last.args.entity_type_filter

MatchesTickerPattern(text) ==
    \E n \in 1..5 :
        /\ n <= Len(text)
        /\ \A i \in 1..n : IsUpper(text[i])
        /\ \/ Len(text) = n
           \/ /\ Len(text) = n + 2
              /\ text[n + 1] = "."
              /\ IsUpper(text[n + 2])

\* The open TICKER identifiers of ACTIVE entities that hold the text.
TickersHolding(text) ==
    {i \in identifiers :
        /\ i.scheme = "TICKER"
        /\ i.valid_to = NULL
        /\ Upper(i.value) = Upper(text)
        /\ \E e \in entities : e.syn_id = i.syn_id /\ e.status = "ACTIVE"}

\* C32: a text is ticker-like exactly when it matches
\* ^[A-Z]{1,5}(\.[A-Z])?$, and resolve lists a candidate matched via the
\* ticker exactly when its trimmed text matches the pattern and an open
\* ticker holds it.
C32_TickerPattern ==
    /\ last.op = "is_ticker_like" =>
          (last.result <=> MatchesTickerPattern(last.args.text))
    /\ last.op = "resolve" =>
          ((\E c \in Elements(last.result.all_candidates) : c.matched_via = "TICKER")
              <=> /\ MatchesTickerPattern(Strip(last.args.text))
                  /\ TickersHolding(Strip(last.args.text)) # {})

\* What the code does: a text is ticker-like exactly when it matches the
\* pattern and has at most six characters.
TickerLikeWithinSix ==
    last.op = "is_ticker_like" =>
        (last.result <=> (MatchesTickerPattern(last.args.text) /\ Len(last.args.text) <= 6))

\* The two confidences are 0.10 apart or less.
WithinTenth(a, b) == a - b <= 100 /\ b - a <= 100

\* C33: the reason of a quarantine is 'No candidates found' exactly when the
\* candidate list is empty, 'Ambiguous' exactly when there are at least two
\* candidates and the top two confidences are within 0.10 of each other, and
\* 'Low confidence' in every other case.
C33_QuarantineReason ==
    last.op = "quarantine_reason" =>
        LET all_candidates == last.args.all_candidates
            ambiguous == /\ Len(all_candidates) >= 2
                         /\ WithinTenth(all_candidates[1].confidence,
                                        all_candidates[2].confidence)
        IN /\ (last.result = "No candidates found") <=> (all_candidates = <<>>)
           /\ (last.result = "Ambiguous") <=> ambiguous
           /\ (last.result = "Low confidence") <=> (all_candidates # <<>> /\ ~ambiguous)

\* The same with 'within 0.10' read as 'less than 0.10 apart'.
QuarantineReasonBelowTenth ==
    last.op = "quarantine_reason" =>
        LET all_candidates == last.args.all_candidates
            ambiguous == /\ Len(all_candidates) >= 2
                         /\ all_candidates[1].confidence - all_candidates[2].confidence < 100
        IN /\ (last.result = "No candidates found") <=> (all_candidates = <<>>)
           /\ (last.result = "Ambiguous") <=> ambiguous
           /\ (last.result = "Low confidence") <=> (all_candidates # <<>> /\ ~ambiguous)

\* C34: the list resolve returns holds at most one candidate per syn_id, a
\* candidate of the highest confidence among those generated for its syn_id,
\* and is sorted by confidence in non-increasing order.
C34_DedupSorted ==
    (last.op = "resolve" /\ Strip(last.args.text) # <<>>) =>
        LET all_candidates == last.result.all_candidates
        IN /\ \A i, j \in DOMAIN all_candidates :
                  i # j => all_candidates[i].syn_id # all_candidates[j].syn_id
           /\ \A i \in DOMAIN all_candidates :
                  /\ all_candidates[i] \in Generated
                  /\ \A c \in Generated :
                        c.syn_id = all_candidates[i].syn_id
                            => c.confidence <= all_candidates[i].confidence
           /\ \A i, j \in DOMAIN all_candidates :
                  i < j => all_candidates[i].confidence >= all_candidates[j].confidence

\* A resolve for which two candidates of different confidences were
\* generated for one syn_id, and that lists two candidates of different
\* confidences.
C34_Witness ==
    /\ last.op = "resolve"
    /\ \E c, d \in Generated : c.syn_id = d.syn_id /\ c.confidence # d.confidence
    /\ Len(last.result.all_candidates) = 2
    /\ last.result.all_candidates[1].confidence # last.result.all_candidates[2].confidence

\* The table the request in flight writes.
TableOfRequest ==
    IF txns[1].op = "upsert_attribute" THEN attributes
    ELSE IF txns[1].op = "add_edges_batch" THEN edges
    ELSE identifiers

\* C35: an entry leaves the cache only by the invalidation of a write whose
\* transaction has committed, whose rows are the rows of its table by then,
\* and only an entry of an entity the write affects; so a write that fails
\* or is rolled back invalidates nothing.  An entry enters the cache only
\* with the view of the committed rows.
C35_InvalidateAfterCommit ==
    [][/\ (\E c \in cache : c \notin cache') =>
              /\ txns[1].pc = "committed"
              /\ IF txns[1].op = "add_edges_batch"
                 THEN txns[1].result.status = 200
                 ELSE Succeeded(txns[1].result)
              /\ TableOfRequest = txns[1].rows
              /\ \A c \in cache \ cache' : c.key[1] \in txns[1].pending
       /\ \A c \in cache' \ cache :
              c.data \in ViewOfStore(c.key[1], c.key[2], c.key[3])]_vars

\* A batch that was rolled back has returned, and the cache still holds an
\* entry of an entity the batch names.
C35_Witness ==
    /\ last.op = "add_edges_batch"
    /\ last.result.status = 500
    /\ \E c \in cache : \E i \in DOMAIN last.args :
          c.key[1] \in {last.args[i].src, last.args[i].dst}

\* C36: the time to live of an entry is its base TTL plus a jitter j with
\* 0 <= j < 120, so it lies in [TTL, TTL + 120) and never reaches TTL + 120.
C36_TtlJitter ==
    last.op = "EntityCache.set" =>
        LET ttl == IF last.args.ttl = NULL THEN DEFAULT_TTL ELSE last.args.ttl
        IN ttl <= last.result /\ last.result < ttl + 120

\* What the code does: the jitter is at most 120, 120 included.
TtlJitterAtMost120 ==
    last.op = "EntityCache.set" =>
        LET ttl == IF last.args.ttl = NULL THEN DEFAULT_TTL ELSE last.args.ttl
        IN ttl <= last.result /\ last.result <= ttl + 120

\* The validity intervals [valid_from, valid_to) of two rows share an
\* instant; an open row has no end.
Overlap(r1, r2) ==
    /\ r1.valid_to = NULL \/ r2.valid_from < r1.valid_to
    /\ r2.valid_to = NULL \/ r1.valid_from < r2.valid_to
    /\ r1.valid_to = NULL \/ r1.valid_from < r1.valid_to
    /\ r2.valid_to = NULL \/ r2.valid_from < r2.valid_to

\* C37: whatever explicit instants the calls of add_edge, delete_edge and
\* upsert_attribute were given, every closed row has valid_from <= valid_to,
\* and the validity intervals of two versions of one logical key never
\* overlap.
C37_IntervalsWellFormed ==
    /\ \A r \in edges : r.valid_to # NULL => r.valid_from <= r.valid_to
    /\ \A r \in attributes : r.valid_to # NULL => r.valid_from <= r.valid_to
    /\ \A r1, r2 \in edges :
          (r1 # r2 /\ r1.src = r2.src /\ r1.dst = r2.dst
              /\ r1.rel_type = r2.rel_type) => ~Overlap(r1, r2)
    /\ \A r1, r2 \in attributes :
          (r1 # r2 /\ r1.syn_id = r2.syn_id /\ r1.key = r2.key) => ~Overlap(r1, r2)

\* The open identifier rows (syn_id, scheme, value).
OpenRowsOf(syn_id, scheme, value) ==
    {r \in identifiers :
        /\ r.syn_id = syn_id
        /\ r.scheme = scheme
        /\ r.value = value
        /\ r.valid_to = NULL}

\* C38: whenever add_identifier(syn_id, scheme, value, valid_from) returns
\* without error, the store holds an open identifier row (syn_id, scheme,
\* value), and resolve_identifier(scheme, value, asof) returns syn_id for
\* every asof from the row's valid_from on; this includes the call made when
\* the entity already has a row with the same (syn_id, scheme, valid_from)
\* and a different value.
C38_AddIdentifierThenResolves ==
    (last.op = "add_identifier" /\ last.result = "ok") =>
        LET a == last.args
            open == OpenRowsOf(a.syn_id, a.scheme, Strip(a.value))
        IN /\ open # {}
           /\ \A r \in open : \A asof \in Time :
                asof >= r.valid_from =>
                    {x.syn_id : x \in resolve_identifier(a.scheme, a.value, asof)}
                        = {a.syn_id}

\* What the code does: a call that returns without error leaves the entity
\* with a row of that scheme, under the value given or, when the insert was
\* skipped on (syn_id, scheme, valid_from), under the value stored before.
AddIdentifierKeepsKeyRow ==
    (last.op = "add_identifier" /\ last.result = "ok") =>
        \/ OpenRowsOf(last.args.syn_id, last.args.scheme, Strip(last.args.value)) # {}
        \/ \E r \in identifiers \cap pre :
              /\ r.syn_id = last.args.syn_id
              /\ r.scheme = last.args.scheme
              /\ r.value # Strip(last.args.value)
              /\ identifiers = pre

\* A text that is an alias's word twice: its trigram similarity to the alias
\* is 1, and no canonical name matches it.
RepeatedAliasText == <<"x", "b", "k", " ", "x", "b", "k">>

\* The confidences of a resolve outcome keep the two stages from resolving.
ResolvedByExactStage(r) ==
    /\ r.best # <<>> => r.best[1].matched_via \in {"TICKER", "ALIAS"}
    /\ \A i \in DOMAIN r.all_candidates :
          LET c == r.all_candidates[i]
          IN /\ c.matched_via = "CANONICAL_NAME" =>
                    c.confidence <= CONFIDENCE_CANONICAL
             /\ c.matched_via = "ALIAS_FUZZY" =>
                    c.confidence <= CONFIDENCE_FUZZY_HIGH

CanonicalNameAtItsCap ==
    /\ last.op = "resolve"
    /\ last.result.best = <<>>
    /\ last.result.all_candidates # <<>>
    /\ last.result.all_candidates[1].matched_via = "CANONICAL_NAME"
    /\ last.result.all_candidates[1].confidence = CONFIDENCE_CANONICAL

\* C40: after any sequence of add_edge calls on one (src, dst, rel_type),
\* right after each call that returned, the open edge's source and evidence
\* are the values just supplied and its confidence differs from the
\* confidence just supplied by at most 0.01: small confidence changes do not
\* let the stored value drift further than 0.01 from the latest write.
C40_OpenEdgeFollowsLatestWrite ==
    (last.op = "add_edge" /\ last.result \in Returned) =>
        LET a == last.args
            open == OpenEdges(edges, a.src, a.dst, a.rel_type)
        IN /\ open # {}
           /\ \A r \in open :
                /\ r.source = a.source
                /\ r.evidence = a.evidence
                /\ Abs(r.confidence - a.confidence) <= Tolerance

\* An add_edge that wrote nothing: the open edge keeps a confidence that
\* differs from the one supplied, by less than 0.01.
C40_Witness ==
    /\ last.op = "add_edge"
    /\ last.result = "(False, False)"
    /\ edges = pre
    /\ \E r \in OpenEdges(edges, last.args.src, last.args.dst, last.args.rel_type) :
          /\ r.confidence # last.args.confidence
          /\ Abs(r.confidence - last.args.confidence) < Tolerance

\* An add_edge that wrote a new version for a confidence 0.011 away from the
\* stored one, all else equal.
WriteJustBeyondTolerance ==
    /\ last.op = "add_edge"
    /\ last.result = "(False, True)"
    /\ \E r \in OpenEdges(pre, last.args.src, last.args.dst, last.args.rel_type) :
          /\ Abs(r.confidence - last.args.confidence) = Tolerance + 1
          /\ r.source = last.args.source
          /\ r.evidence = last.args.evidence
          /\ r.attrs = last.args.attrs
    /\ \E r \in OpenEdges(edges, last.args.src, last.args.dst, last.args.rel_type) :
          r.confidence = last.args.confidence

\* Two add_edge calls in a row on one key: when the first wrote nothing and
\* the second supplies the same source, evidence and attrs, the second is
\* compared with the stored confidence, not with the one the first supplied.
NoDriftAcrossNoOps ==
    [][(/\ last.op = "add_edge" /\ last.result = "(False, False)"
        /\ last'.op = "add_edge" /\ nops' = nops + 1
        /\ last'.result \in Returned
        /\ last'.args.src = last.args.src /\ last'.args.dst = last.args.dst
        /\ last'.args.rel_type = last.args.rel_type)
       => \A r \in OpenEdges(edges', last'.args.src, last'.args.dst, last'.args.rel_type) :
             Abs(r.confidence - last'.args.confidence) <= Tolerance]_vars

====
